---- MODULE Spec2Model ----
(***************************************************************************)
(* Authentication core of sniply_api: session manager over a TTL store,    *)
(* CSRF check, API-key registry, fixed-window rate limiter and the         *)
(* middleware that dispatches between the two credential strategies.       *)
(*                                                                         *)
(* Time is a discrete clock `now` (one tick = one time unit); 0 is the     *)
(* zero time.Time / a nil *time.Time.  Strings that the code only compares *)
(* for equality (session IDs, tokens) are naturals, 0 being the empty      *)
(* string.                                                                 *)
(***************************************************************************)
EXTENDS Integers, Sequences, FiniteSets, TLC

\* ---------------------------------------------------------------- bounds
MaxTime == 5
MaxSessions == 1
MaxKeys == 2
MaxCalls == 5
MaxRefTime == 12

\* ------------------------------------------------- program configuration
\* session.Manager fields as the service runs with them (scaled to clock ticks)
DefaultManager == [TTL |-> 2, MaxAge |-> 3, RefreshBefore |-> 1]
\* ratelimit.Limiter fields (scaled)
Limit == 2
Window == 3

\* two requests may be in flight at once
Procs == {"p1", "p2"}
Users == {"usr_1", "usr_2"}
UserRole(u) == IF u = "usr_1" THEN "admin" ELSE "member"
Methods == {"GET", "HEAD", "OPTIONS", "POST", "DELETE"}
Scopes == {"read", "write", "read_write"}
Backends == {"memory", "redis"}
RLKeys == {"login:ip:1.1.1.1", "login:email:a@b.com", "login:email:x@y.com",
           "login:email:A@B.com"}

\* apperrors kinds
KindInvalidInput == "invalid_input"
KindUnauthorized == "unauthorized"
KindForbidden == "forbidden"
KindNotFound == "not_found"
KindRateLimited == "rate_limited"
KindInternal == "internal"

VARIABLES
    now,        \* wall clock read by time.Now()
    backend,    \* which session.Store implementation the Manager was built with
    mgr,        \* the Manager's TTL, MaxAge and RefreshBefore
    limiter,    \* how auth.Service.LoginLimiter is set up
    usr,        \* users table, and the result of the last users.Service call
    sessStore,  \* session store: id -> entry or NoEntry
    nextID,     \* next random session id / csrf token to be generated
    keys,       \* api_keys table: id -> row or NoKey
    rl,         \* rate-limit counters in Redis: key -> [count, expireAt] or NoCounter
    req,        \* per in-flight HTTP request: position in AuthMiddleware and locals
    rev,        \* per in-flight apikeys.Service.Revoke call
    loggedOut,  \* history: session ids for which Logout has returned nil
    hist,       \* history: the Allow calls made so far, in order
    lim,        \* per process: the key of its Allow call on its way to Redis
    lastLogin,  \* the Login call that completed last
    rf,         \* the direct Manager.Refresh call that completed last
    last,       \* the request that completed last: inputs, auth result, response
    lastRev,    \* the Revoke call that completed last
    lastList    \* the keys returned by the last List call

vars == <<now, backend, limiter, usr, mgr, sessStore, nextID, keys, rl, req, rev, loggedOut,
          hist, lim, lastLogin, rf, last, lastRev, lastList>>

TTL == mgr.TTL
MaxAge == mgr.MaxAge
RefreshBefore == mgr.RefreshBefore

NoSession == [ID |-> 0, UserID |-> "", Role |-> "", CSRFToken |-> 0,
              CreatedAt |-> 0, LastRefreshedAt |-> 0, ExpiresAt |-> 0]
NoEntry == [present |-> FALSE, sess |-> NoSession, keyExp |-> 0]
NoCounter == [present |-> FALSE, count |-> 0, expireAt |-> 0]
NoKey == [present |-> FALSE, UserID |-> "", Scope |-> "", TokenHash |-> 0,
          TokenPrefix |-> 0, RevokedAt |-> 0]

SessionIDs == 1..MaxSessions
\* cookie values a client may send: none/empty (0), an issued id, or an id never issued
CookieValues == 0..(MaxSessions + 1)
\* X-CSRF-Token header values: none (0), a generated token, or one never generated
CSRFValues == 0..(MaxSessions + 1)

\* ------------------------------------------------------------ session store
\* A Redis key written with a TTL is gone once the TTL has run out; the map of
\* MemoryStore keeps an item until it is deleted.
StoreHas(store, id, t) ==
    /\ id \in SessionIDs
    /\ store[id].present
    /\ (backend = "redis" => (store[id].keyExp = 0 \/ t < store[id].keyExp))

\* MemoryStore.Set ignores ttl; RedisStore.Set passes it to SET, where a zero
\* expiration means that the key does not expire (keyExp 0).
StoreSet(store, id, s, ttl, t) ==
    [store EXCEPT ![id] = [present |-> TRUE, sess |-> s,
                           keyExp |-> IF backend = "redis" /\ ttl > 0 THEN t + ttl ELSE 0]]

StoreDelete(store, id) ==
    IF id \in SessionIDs THEN [store EXCEPT ![id] = NoEntry] ELSE store

\* ---------------------------------------------------------- session manager
ensureSessionTimestamps(s, t) ==
    LET c == IF s.CreatedAt = 0
             THEN IF TTL > 0 /\ s.ExpiresAt # 0
                  THEN (IF s.ExpiresAt - TTL > t THEN t ELSE s.ExpiresAt - TTL)
                  ELSE t
             ELSE s.CreatedAt
        l == IF s.LastRefreshedAt = 0 THEN c ELSE s.LastRefreshedAt
    IN [s EXCEPT !.CreatedAt = c, !.LastRefreshedAt = l]

\* now.After(sess.CreatedAt.Add(m.MaxAge)) guarded by m.MaxAge > 0
PastMaxAge(s, t) == MaxAge > 0 /\ t > s.CreatedAt + MaxAge

\* the token Create puts into a new session: a fresh random value
NewCSRFToken(id) == id

NewSession(id, userID, role, t) ==
    [ID |-> id, UserID |-> userID, Role |-> role, CSRFToken |-> NewCSRFToken(id),
     CreatedAt |-> t, LastRefreshedAt |-> t, ExpiresAt |-> t + TTL]

\* a Refresh that extends by twice the TTL
Refreshed_DoubleTTL(s, t) == [s EXCEPT !.ExpiresAt = t + TTL + TTL, !.LastRefreshedAt = t]

\* variant: the refresh time is not recorded
Refreshed_KeepLast(s, t) == [s EXCEPT !.ExpiresAt = t + TTL]

\* variant: Refresh issues a new CSRF token
Refreshed_NewToken(s, t) ==
    [s EXCEPT !.ExpiresAt = t + TTL, !.LastRefreshedAt = t, !.CSRFToken = s.CSRFToken + 1]

\* variant: the new expiry is counted from the old one
Refreshed_FromExpiry(s, t) == [s EXCEPT !.ExpiresAt = s.ExpiresAt + TTL, !.LastRefreshedAt = t]

\* the session Refresh writes back
Refreshed(s, t) == [s EXCEPT !.ExpiresAt = t + TTL, !.LastRefreshedAt = t]

\* variant: the session counts as near expiry one tick earlier
FarFromExpiry_Later(s, t) == RefreshBefore > 0 /\ s.ExpiresAt - t > RefreshBefore + 1

\* variant: a session with exactly RefreshBefore left counts as far from expiry
FarFromExpiry_AtLeast(s, t) == RefreshBefore > 0 /\ s.ExpiresAt - t >= RefreshBefore

\* time.Until(sess.ExpiresAt) > m.RefreshBefore, guarded by m.RefreshBefore > 0
FarFromExpiry(s, t) == RefreshBefore > 0 /\ s.ExpiresAt - t > RefreshBefore

requiresCSRFToken(method) == method \notin {"GET", "HEAD", "OPTIONS"}

\* a check that lets an absent X-CSRF-Token header through
CSRFRejected_SkipEmpty(method, csrfToken, s) ==
    requiresCSRFToken(method) /\ csrfToken # 0 /\ csrfToken # s.CSRFToken

CSRFRejected(method, csrfToken, s) ==
    requiresCSRFToken(method) /\ (csrfToken = 0 \/ csrfToken # s.CSRFToken)

\* ------------------------------------------------------------- API keys
KeyIDs == 1..MaxKeys
\* tokens a client may present: none (0), a generated token, or one never generated
TokenValues == 0..(MaxKeys + 1)

\* one-way hash of the secret token (injective on the tokens of the model)
HashToken(token) == 2 * token + 1

\* the short prefix kept for display: the leading part of the token, which
\* several tokens share
TokenPrefix(token) == token \div 2

\* variant: the row keeps the token itself where its hash belongs
NewKey_RawToken(userID, scope, token) ==
    [present |-> TRUE, UserID |-> userID, Scope |-> scope, TokenHash |-> token,
     TokenPrefix |-> TokenPrefix(token), RevokedAt |-> 0]

\* the Key that Service.Create builds and hands to Store.Create
NewKey(userID, scope, token) ==
    [present |-> TRUE, UserID |-> userID, Scope |-> scope,
     TokenHash |-> HashToken(token), TokenPrefix |-> TokenPrefix(token),
     RevokedAt |-> 0]

Valid(scope) == scope \in Scopes

AllowsMethod(scope, method) ==
    IF method \in {"GET", "HEAD", "OPTIONS"}
    THEN scope \in {"read", "read_write"}
    ELSE scope \in {"write", "read_write"}

\* Repository.GetByTokenHash: the ids of the rows whose token_hash is `hash`
GetByTokenHash(hash) == {k \in KeyIDs : keys[k].present /\ keys[k].TokenHash = hash}

\* Repository.GetByID
GetByID(id) == IF id \in KeyIDs /\ keys[id].present THEN keys[id] ELSE NoKey

\* an UPDATE that flips revoked_at: it clears a value that is already set
sqlKeyRevoke_Toggle(tbl, id, t) ==
    IF id \in KeyIDs /\ tbl[id].present
    THEN [tbl EXCEPT ![id].RevokedAt = IF tbl[id].RevokedAt # 0 THEN 0 ELSE t]
    ELSE tbl

\* Repository.Revoke / sqlKeyRevoke: UPDATE api_keys SET revoked_at = now() WHERE id = $1
sqlKeyRevoke(tbl, id, t) ==
    IF id \in KeyIDs /\ tbl[id].present THEN [tbl EXCEPT ![id].RevokedAt = t] ELSE tbl

RowsAffected(tbl, id) == IF id \in KeyIDs /\ tbl[id].present THEN 1 ELSE 0

\* auth results: errKind "" is a nil error
AuthOK(user, role, s, refreshed) ==
    [errKind |-> "", errMsg |-> "", user |-> user, role |-> role,
     sess |-> s, refreshed |-> refreshed]
AuthErr(kind, msg) ==
    [errKind |-> kind, errMsg |-> msg, user |-> "", role |-> "",
     sess |-> NoSession, refreshed |-> FALSE]

\* variant: the scope is examined before the revocation mark
AuthenticateAPIKey_ScopeFirst(token, method) ==
    IF token = 0 THEN AuthErr(KindUnauthorized, "unauthorized")
    ELSE LET found == GetByTokenHash(HashToken(token)) IN
         IF found = {} THEN AuthErr(KindUnauthorized, "unauthorized")
         ELSE LET key == keys[CHOOSE k \in found : TRUE] IN
              IF ~AllowsMethod(key.Scope, method)
              THEN AuthErr(KindForbidden, "forbidden")
              ELSE IF key.RevokedAt # 0 THEN AuthErr(KindUnauthorized, "unauthorized")
                   ELSE AuthOK(key.UserID, UserRole(key.UserID), NoSession, FALSE)

\* variant: the scope is not examined at all
AuthenticateAPIKey_NoScope(token, method) ==
    IF token = 0 THEN AuthErr(KindUnauthorized, "unauthorized")
    ELSE LET found == GetByTokenHash(HashToken(token)) IN
         IF found = {} THEN AuthErr(KindUnauthorized, "unauthorized")
         ELSE LET key == keys[CHOOSE k \in found : TRUE] IN
              IF key.RevokedAt # 0 THEN AuthErr(KindUnauthorized, "unauthorized")
              ELSE AuthOK(key.UserID, UserRole(key.UserID), NoSession, FALSE)

\* auth.Service.AuthenticateAPIKey
AuthenticateAPIKey(token, method) ==
    IF token = 0 THEN AuthErr(KindUnauthorized, "unauthorized")
    ELSE LET found == GetByTokenHash(HashToken(token)) IN
         IF found = {} THEN AuthErr(KindUnauthorized, "unauthorized")
         ELSE LET key == keys[CHOOSE k \in found : TRUE] IN
              IF key.RevokedAt # 0 THEN AuthErr(KindUnauthorized, "unauthorized")
              ELSE IF ~AllowsMethod(key.Scope, method)
                   THEN AuthErr(KindForbidden, "forbidden")
                   ELSE AuthOK(key.UserID, UserRole(key.UserID), NoSession, FALSE)

\* ---------------------------------------------------------- HTTP boundary
statusFromKind(kind) ==
    CASE kind = KindInvalidInput -> 400
      [] kind = KindUnauthorized -> 401
      [] kind = KindForbidden -> 403
      [] kind = KindNotFound -> 404
      [] kind = "conflict" -> 409
      [] kind = KindRateLimited -> 429
      [] OTHER -> 500

\* apiKeyFromRequest: the X-API-Key header, else the Bearer value of Authorization
apiKeyFromRequest(r) == IF r.xApiKey # 0 THEN r.xApiKey ELSE r.bearer

Idle == [pc |-> "idle", method |-> "", apiKey |-> 0, cookie |-> 0, csrf |-> 0,
         allowAPIKey |-> FALSE, allowSession |-> FALSE, sess |-> NoSession,
         afterLogout |-> FALSE, start |-> 0, peerStart |-> 0, tried |-> {}]

NoLast == [done |-> FALSE, method |-> "", apiKey |-> 0, cookie |-> 0, csrf |-> 0,
           allowAPIKey |-> FALSE, allowSession |-> FALSE,
           strategy |-> "none", attempts |-> 0,
           errKind |-> "", errMsg |-> "", user |-> "", role |-> "",
           sess |-> NoSession, refreshed |-> FALSE,
           handler |-> FALSE, status |-> 0, ctxUser |-> "", ctxRole |-> "",
           cookieSet |-> FALSE, cookieID |-> 0, cookieExp |-> 0,
           valid0 |-> FALSE, afterLogout |-> FALSE, storeChanged |-> FALSE,
           fault |-> FALSE, retryIn |-> 0,
           retryAfter |-> [set |-> FALSE, seconds |-> 0]]

\* variant: the handler runs whatever the authentication call returned
Respond_FallThrough(r, strategy, res) ==
    [done |-> TRUE, method |-> r.method, apiKey |-> r.apiKey, cookie |-> r.cookie,
     csrf |-> r.csrf, allowAPIKey |-> r.allowAPIKey, allowSession |-> r.allowSession,
     strategy |-> strategy, attempts |-> 1,
     errKind |-> res.errKind, errMsg |-> res.errMsg, user |-> res.user,
     role |-> res.role, sess |-> res.sess, refreshed |-> res.refreshed,
     handler |-> TRUE,
     status |-> IF res.errKind = "" THEN 0 ELSE statusFromKind(res.errKind),
     ctxUser |-> res.user, ctxRole |-> res.role,
     cookieSet |-> strategy = "session" /\ res.refreshed,
     cookieID |-> IF strategy = "session" /\ res.refreshed THEN res.sess.ID ELSE 0,
     cookieExp |-> IF strategy = "session" /\ res.refreshed
                   THEN res.sess.ExpiresAt ELSE 0,
     valid0 |-> FALSE, afterLogout |-> r.afterLogout, storeChanged |-> FALSE,
     fault |-> FALSE, retryIn |-> 0,
     retryAfter |-> [set |-> FALSE, seconds |-> 0]]

\* variant: the cookie is rewritten after every successful session authentication
Respond_CookieAlways(r, strategy, res) ==
    LET ok == res.errKind = "" IN
    [done |-> TRUE, method |-> r.method, apiKey |-> r.apiKey, cookie |-> r.cookie,
     csrf |-> r.csrf, allowAPIKey |-> r.allowAPIKey, allowSession |-> r.allowSession,
     strategy |-> strategy, attempts |-> Cardinality(r.tried),
     errKind |-> res.errKind, errMsg |-> res.errMsg, user |-> res.user,
     role |-> res.role, sess |-> res.sess, refreshed |-> res.refreshed,
     handler |-> ok,
     status |-> IF ok THEN 0 ELSE statusFromKind(res.errKind),
     ctxUser |-> IF ok THEN res.user ELSE "",
     ctxRole |-> IF ok THEN res.role ELSE "",
     cookieSet |-> ok /\ strategy = "session",
     cookieID |-> IF ok /\ strategy = "session" THEN res.sess.ID ELSE 0,
     cookieExp |-> IF ok /\ strategy = "session" THEN res.sess.ExpiresAt ELSE 0,
     valid0 |-> FALSE, afterLogout |-> r.afterLogout, storeChanged |-> FALSE,
     fault |-> FALSE, retryIn |-> 0,
     retryAfter |-> [set |-> FALSE, seconds |-> 0]]

\* variant: the user ID is put into the context without the role
Respond_NoRole(r, strategy, res) ==
    LET ok == res.errKind = "" IN
    [done |-> TRUE, method |-> r.method, apiKey |-> r.apiKey, cookie |-> r.cookie,
     csrf |-> r.csrf, allowAPIKey |-> r.allowAPIKey, allowSession |-> r.allowSession,
     strategy |-> strategy, attempts |-> Cardinality(r.tried),
     errKind |-> res.errKind, errMsg |-> res.errMsg, user |-> res.user,
     role |-> res.role, sess |-> res.sess, refreshed |-> res.refreshed,
     handler |-> ok,
     status |-> IF ok THEN 0 ELSE statusFromKind(res.errKind),
     ctxUser |-> IF ok THEN res.user ELSE "",
     ctxRole |-> "",
     cookieSet |-> ok /\ strategy = "session" /\ res.refreshed,
     cookieID |-> IF ok /\ strategy = "session" /\ res.refreshed THEN res.sess.ID ELSE 0,
     cookieExp |-> IF ok /\ strategy = "session" /\ res.refreshed
                   THEN res.sess.ExpiresAt ELSE 0,
     valid0 |-> FALSE, afterLogout |-> r.afterLogout, storeChanged |-> FALSE,
     fault |-> FALSE, retryIn |-> 0,
     retryAfter |-> [set |-> FALSE, seconds |-> 0]]

\* AuthMiddleware after the authentication call of `strategy` returned `res`:
\* an error is written with writeAppError and the handler is not called; else the
\* cookie is rewritten when the session was refreshed, the identity is put into
\* the context and next.ServeHTTP runs.
Respond(r, strategy, res) ==
    LET ok == res.errKind = "" IN
    [done |-> TRUE, method |-> r.method, apiKey |-> r.apiKey, cookie |-> r.cookie,
     csrf |-> r.csrf, allowAPIKey |-> r.allowAPIKey, allowSession |-> r.allowSession,
     strategy |-> strategy, attempts |-> Cardinality(r.tried),
     errKind |-> res.errKind, errMsg |-> res.errMsg, user |-> res.user,
     role |-> res.role, sess |-> res.sess, refreshed |-> res.refreshed,
     handler |-> ok,
     status |-> IF ok THEN 0 ELSE statusFromKind(res.errKind),
     ctxUser |-> IF ok THEN res.user ELSE "",
     ctxRole |-> IF ok THEN res.role ELSE "",
     cookieSet |-> ok /\ strategy = "session" /\ res.refreshed,
     cookieID |-> IF ok /\ strategy = "session" /\ res.refreshed THEN res.sess.ID ELSE 0,
     cookieExp |-> IF ok /\ strategy = "session" /\ res.refreshed
                   THEN res.sess.ExpiresAt ELSE 0,
     valid0 |-> FALSE, afterLogout |-> r.afterLogout, storeChanged |-> FALSE,
     fault |-> FALSE, retryIn |-> 0,
     retryAfter |-> [set |-> FALSE, seconds |-> 0]]

\* AuthMiddleware when no strategy applies: http.Error(w, "unauthorized", 401)
RespondNoStrategy(r) ==
    [NoLast EXCEPT !.done = TRUE, !.method = r.method, !.apiKey = r.apiKey,
                   !.cookie = r.cookie, !.csrf = r.csrf,
                   !.allowAPIKey = r.allowAPIKey, !.allowSession = r.allowSession,
                   !.status = 401, !.errMsg = "unauthorized"]

\* the session named by the cookie is stored, unexpired and within MaxAge
SessionValid(store, id, t) ==
    /\ StoreHas(store, id, t)
    /\ t <= store[id].sess.ExpiresAt
    /\ ~PastMaxAge(ensureSessionTimestamps(store[id].sess, t), t)

\* ------------------------------------------- the steps of one request
\* A configuration is the session store, the request's own position and
\* locals (r), and the response once there is one (out).  Each step is one
\* access to the shared store together with the local code that follows it.
Cfg(store, r, out) == [store |-> store, r |-> r, out |-> out]

\* variant: a session cookie, when present, is tried before the API key
StepBegin_SessionFirst(store, q, allowAPIKey, allowSession) ==
    LET token == apiKeyFromRequest(q)
        me == [Idle EXCEPT !.method = q.method, !.apiKey = token,
                           !.cookie = q.cookie, !.csrf = q.csrf,
                           !.allowAPIKey = allowAPIKey,
                           !.allowSession = allowSession,
                           !.afterLogout = q.cookie \in loggedOut]
    IN IF allowSession /\ q.cookie # 0
       THEN Cfg(store, [me EXCEPT !.pc = "store_get", !.tried = {"session"}], NoLast)
       ELSE IF allowAPIKey /\ token # 0
       THEN Cfg(store, [me EXCEPT !.pc = "apikey", !.tried = {"apikey"}], NoLast)
       ELSE IF ~allowSession
       THEN Cfg(store, Idle, RespondNoStrategy(me))
       ELSE Cfg(store, Idle,
                Respond([me EXCEPT !.tried = {"session"}], "session", AuthErr(KindUnauthorized, "missing session")))

\* variant: a request without a session cookie is refused as Forbidden
StepBegin_MissingIsForbidden(store, q, allowAPIKey, allowSession) ==
    LET token == apiKeyFromRequest(q)
        me == [Idle EXCEPT !.method = q.method, !.apiKey = token,
                           !.cookie = q.cookie, !.csrf = q.csrf,
                           !.allowAPIKey = allowAPIKey,
                           !.allowSession = allowSession,
                           !.afterLogout = q.cookie \in loggedOut]
    IN IF allowAPIKey /\ token # 0
       THEN Cfg(store, [me EXCEPT !.pc = "apikey", !.tried = {"apikey"}], NoLast)
       ELSE IF ~allowSession
       THEN Cfg(store, Idle, RespondNoStrategy(me))
       ELSE IF q.cookie = 0
       THEN Cfg(store, Idle,
                Respond([me EXCEPT !.tried = {"session"}], "session", AuthErr(KindForbidden, "forbidden")))
       ELSE Cfg(store, [me EXCEPT !.pc = "store_get", !.tried = {"session"}], NoLast)

\* AuthMiddleware up to the authentication call; AuthenticateSession up to
\* its store read
StepBegin(store, q, allowAPIKey, allowSession) ==
    LET token == apiKeyFromRequest(q)
        me == [Idle EXCEPT !.method = q.method, !.apiKey = token,
                           !.cookie = q.cookie, !.csrf = q.csrf,
                           !.allowAPIKey = allowAPIKey,
                           !.allowSession = allowSession,
                           !.afterLogout = q.cookie \in loggedOut]
    IN IF allowAPIKey /\ token # 0
       THEN Cfg(store, [me EXCEPT !.pc = "apikey", !.tried = {"apikey"}], NoLast)
       ELSE IF ~allowSession
       THEN Cfg(store, Idle, RespondNoStrategy(me))
       ELSE IF q.cookie = 0
       THEN Cfg(store, Idle,
                Respond([me EXCEPT !.tried = {"session"}], "session", AuthErr(KindUnauthorized, "missing session")))
       ELSE Cfg(store, [me EXCEPT !.pc = "store_get", !.tried = {"session"}], NoLast)

\* the API-key strategy: one lookup, then the response
\* variant: a request whose API key is refused is tried again with its cookie
StepAPIKey_FallBack(c, t) ==
    LET res == AuthenticateAPIKey(c.r.apiKey, c.r.method) IN
    IF res.errKind # "" /\ c.r.allowSession /\ c.r.cookie # 0
    THEN Cfg(c.store, [c.r EXCEPT !.pc = "store_get", !.tried = @ \cup {"session"}], NoLast)
    ELSE Cfg(c.store, Idle, Respond(c.r, "apikey", res))

StepAPIKey(c, t) ==
    Cfg(c.store, Idle, Respond(c.r, "apikey", AuthenticateAPIKey(c.r.apiKey, c.r.method)))

\* variant: the CSRF header is looked at before the session is read
StepStoreGet_CSRFFirst(c, t) ==
    LET id == c.r.cookie IN
    IF requiresCSRFToken(c.r.method) /\ c.r.csrf = 0
    THEN Cfg(c.store, Idle, Respond(c.r, "session", AuthErr(KindForbidden, "forbidden")))
    ELSE IF ~StoreHas(c.store, id, t)
    THEN Cfg(c.store, Idle,
             Respond(c.r, "session", AuthErr(KindUnauthorized, "unauthorized")))
    ELSE IF t > c.store[id].sess.ExpiresAt
    THEN Cfg(c.store, [c.r EXCEPT !.pc = "store_del"], NoLast)
    ELSE Cfg(c.store, [c.r EXCEPT !.pc = "mgr_get", !.sess = c.store[id].sess], NoLast)

\* variant: Store.Get leaves expiry to the TTL the entry was stored with
StepStoreGet_TrustTTL(c, t) ==
    LET id == c.r.cookie IN
    IF ~StoreHas(c.store, id, t)
    THEN Cfg(c.store, Idle,
             Respond(c.r, "session", AuthErr(KindUnauthorized, "unauthorized")))
    ELSE Cfg(c.store, [c.r EXCEPT !.pc = "mgr_get", !.sess = c.store[id].sess], NoLast)

\* Store.Get: read the entry and compare its ExpiresAt with the clock
StepStoreGet(c, t) ==
    LET id == c.r.cookie IN
    IF ~StoreHas(c.store, id, t)
    THEN Cfg(c.store, Idle,
             Respond(c.r, "session", AuthErr(KindUnauthorized, "unauthorized")))
    ELSE IF t > c.store[id].sess.ExpiresAt
    THEN Cfg(c.store, [c.r EXCEPT !.pc = "store_del"], NoLast)
    ELSE Cfg(c.store, [c.r EXCEPT !.pc = "mgr_get", !.sess = c.store[id].sess], NoLast)

\* Store.Get found the entry expired: it deletes the key and reports not found
StepStoreDel(c, t) ==
    Cfg(StoreDelete(c.store, c.r.cookie), Idle,
        Respond(c.r, "session", AuthErr(KindUnauthorized, "unauthorized")))

\* variant: a session past MaxAge is refused but left in the store
StepMgrGet_NoDelete(c, t) ==
    LET s1 == ensureSessionTimestamps(c.r.sess, t) IN
    IF PastMaxAge(s1, t)
    THEN Cfg(c.store, Idle,
             Respond(c.r, "session", AuthErr(KindUnauthorized, "unauthorized")))
    ELSE IF CSRFRejected(c.r.method, c.r.csrf, s1)
    THEN Cfg(c.store, Idle, Respond(c.r, "session", AuthErr(KindForbidden, "forbidden")))
    ELSE Cfg(c.store, [c.r EXCEPT !.pc = "refresh", !.sess = s1], NoLast)

\* variant: the session is refreshed before the CSRF token is looked at
StepMgrGet_RefreshFirst(c, t) ==
    LET s1 == ensureSessionTimestamps(c.r.sess, t) IN
    IF PastMaxAge(s1, t)
    THEN Cfg(StoreDelete(c.store, c.r.cookie), Idle,
             Respond(c.r, "session", AuthErr(KindUnauthorized, "unauthorized")))
    ELSE IF CSRFRejected(c.r.method, c.r.csrf, s1)
    THEN Cfg(IF TTL > 0 /\ ~FarFromExpiry(s1, t)
             THEN StoreSet(c.store, s1.ID, Refreshed(s1, t), TTL, t) ELSE c.store,
             Idle, Respond(c.r, "session", AuthErr(KindForbidden, "forbidden")))
    ELSE Cfg(c.store, [c.r EXCEPT !.pc = "refresh", !.sess = s1], NoLast)

\* Manager.Get after the store read (MaxAge cutoff), then the CSRF check of
\* AuthenticateSession
StepMgrGet(c, t) ==
    LET s1 == ensureSessionTimestamps(c.r.sess, t) IN
    IF PastMaxAge(s1, t)
    THEN Cfg(StoreDelete(c.store, c.r.cookie), Idle,
             Respond(c.r, "session", AuthErr(KindUnauthorized, "unauthorized")))
    ELSE IF CSRFRejected(c.r.method, c.r.csrf, s1)
    THEN Cfg(c.store, Idle, Respond(c.r, "session", AuthErr(KindForbidden, "forbidden")))
    ELSE Cfg(c.store, [c.r EXCEPT !.pc = "refresh", !.sess = s1], NoLast)

\* Manager.Refresh up to its store write
StepRefresh(c, t) ==
    LET s0 == c.r.sess
        s1 == ensureSessionTimestamps(s0, t) IN
    IF TTL <= 0
    THEN Cfg(c.store, Idle, Respond(c.r, "session", AuthOK(s0.UserID, s0.Role, s0, FALSE)))
    ELSE IF PastMaxAge(s1, t)
    THEN Cfg(StoreDelete(c.store, s1.ID), Idle,
             Respond(c.r, "session", AuthErr(KindUnauthorized, "unauthorized")))
    ELSE IF FarFromExpiry(s1, t)
    THEN Cfg(c.store, Idle, Respond(c.r, "session", AuthOK(s1.UserID, s1.Role, s1, FALSE)))
    ELSE Cfg(c.store, [c.r EXCEPT !.pc = "store_set", !.sess = Refreshed(s1, t)], NoLast)

\* the store write of Refresh, then the successful return
StepStoreSet(c, t) ==
    LET s1 == c.r.sess IN
    Cfg(StoreSet(c.store, s1.ID, s1, TTL, t), Idle,
        Respond(c.r, "session", AuthOK(s1.UserID, s1.Role, s1, TRUE)))

Step(c, t) ==
    CASE c.r.pc = "apikey" -> StepAPIKey(c, t)
      [] c.r.pc = "store_get" -> StepStoreGet(c, t)
      [] c.r.pc = "store_del" -> StepStoreDel(c, t)
      [] c.r.pc = "mgr_get" -> StepMgrGet(c, t)
      [] c.r.pc = "refresh" -> StepRefresh(c, t)
      [] c.r.pc = "store_set" -> StepStoreSet(c, t)
      [] OTHER -> c

\* a request served with nothing else running in between
RECURSIVE Run(_, _)
Run(c, t) == IF c.r.pc = "idle" THEN c ELSE Run(Step(c, t), t)

\* --------------------------------------- the steps of one Revoke call
NoList == [done |-> FALSE, user |-> "", ids |-> {}, rows |-> {}, token |-> 0,
           created |-> NoKey]
NoRev == [pc |-> "idle", user |-> "", id |-> 0, before |-> NoKey]
NoLastRev == [done |-> FALSE, user |-> "", id |-> 0, errKind |-> "",
              before |-> NoKey, prev |-> NoKey]

\* the outcome of a Revoke call: `before` is the row when the call started,
\* `prev` the row just before this call's UPDATE (NoKey when it made none)
RevDone(r, kind, prev) ==
    [done |-> TRUE, user |-> r.user, id |-> r.id, errKind |-> kind,
     before |-> r.before, prev |-> prev]

\* variant: a Revoke that does not look at the owner of the key
RevokeRefused_RevokedOnly(key, userID) == key.RevokedAt # 0

\* a Revoke that does not look at revoked_at
RevokeRefused_OwnerOnly(key, userID) == key.UserID # userID

\* Service.Revoke refuses a key of another user and a key already revoked
RevokeRefused(key, userID) == key.UserID # userID \/ key.RevokedAt # 0

\* Service.Revoke up to and including Store.GetByID and the checks on the row
RevStepBegin(tbl, userID, id) ==
    LET key == IF id \in KeyIDs /\ tbl[id].present THEN tbl[id] ELSE NoKey
        r == [pc |-> "exec", user |-> userID, id |-> id, before |-> key]
    IN IF id = 0
       THEN [keys |-> tbl, r |-> NoRev, out |-> RevDone(r, KindInvalidInput, NoKey)]
       ELSE IF ~key.present
       THEN [keys |-> tbl, r |-> NoRev, out |-> RevDone(r, KindNotFound, NoKey)]
       ELSE IF RevokeRefused(key, userID)
       THEN [keys |-> tbl, r |-> NoRev, out |-> RevDone(r, KindNotFound, NoKey)]
       ELSE [keys |-> tbl, r |-> r, out |-> NoLastRev]

\* Store.Revoke (the UPDATE) and the check of the rows it affected
RevStepExec(tbl, r, t) ==
    [keys |-> sqlKeyRevoke(tbl, r.id, t), r |-> NoRev,
     out |-> RevDone(r, IF RowsAffected(tbl, r.id) > 0 THEN "" ELSE KindNotFound,
                     IF r.id \in KeyIDs THEN tbl[r.id] ELSE NoKey)]

\* ------------------------------------------------------------------ actions
\* ------------------------------------------- results of direct calls
NoLogin == [done |-> FALSE, email |-> "", password |-> 0, ip |-> "", fail |-> "none",
            ipOver |-> FALSE, emailOver |-> FALSE, known |-> FALSE,
            errKind |-> "", errMsg |-> "", retryAfter |-> 0,
            ipCalls |-> 0, emailCalls |-> 0, lookedUp |-> FALSE, verified |-> FALSE,
            created |-> FALSE, hitFailure |-> FALSE,
            userID |-> "", role |-> "", sess |-> NoSession]
NoRefresh == [done |-> FALSE, at |-> 0, before |-> NoSession, after |-> NoSession,
              refreshed |-> FALSE, err |-> "", wrote |-> FALSE, deleted |-> FALSE,
              fault |-> FALSE]

sessVars == <<backend, limiter, usr, mgr, sessStore, nextID, loggedOut>>
keyVars == <<keys, rev, lastRev, lastList>>
rlVars == <<rl, hist, lim>>
obsVars == <<lastLogin, rf>>

\* Redis drops a key when its expiry time is reached
Expires(c, t) == c.present /\ c.expireAt # 0 /\ t >= c.expireAt

\* the clock advances
Tick ==
    /\ now < MaxTime
    /\ now' = now + 1
    /\ last' = NoLast
    /\ lastRev' = NoLastRev
    /\ lastList' = NoList
    /\ lastLogin' = NoLogin
    /\ rl' = [key \in RLKeys |-> IF Expires(rl[key], now + 1) THEN NoCounter ELSE rl[key]]
    /\ UNCHANGED <<sessVars, keys, rev, hist, lim, req, rf>>

\* session.Manager.Create, as called by a successful Login for user u
Create(u) ==
    /\ nextID <= MaxSessions
    /\ sessStore' = StoreSet(sessStore, nextID,
                             NewSession(nextID, u, UserRole(u), now), TTL, now)
    /\ nextID' = nextID + 1
    /\ last' = NoLast
    /\ UNCHANGED <<now, backend, limiter, usr, mgr, loggedOut, keyVars, rlVars, obsVars, req>>

\* Session ids are 256-bit random values: what a client presents is empty, an id
\* issued before, or a made-up value that no later Create will issue.
Presentable(sid) == sid = 0 \/ sid < nextID \/ sid > MaxSessions

\* auth.Service.Logout: an empty id is a no-op; else Manager.Delete
Logout(sid) ==
    /\ sid # 0
    /\ Presentable(sid)
    /\ sessStore' = StoreDelete(sessStore, sid)
    /\ loggedOut' = loggedOut \cup {sid}
    /\ last' = NoLast
    /\ UNCHANGED <<now, backend, limiter, usr, mgr, nextID, keyVars, rlVars, obsVars, req>>

\* request p takes the step its configuration becomes c by
Apply(p, c) ==
    /\ sessStore' = c.store
    /\ req' = [req EXCEPT ![p] = c.r]
    /\ last' = c.out
    /\ UNCHANGED <<now, backend, limiter, usr, mgr, nextID, loggedOut, keyVars, rlVars, obsVars>>

Mine(p) == Cfg(sessStore, req[p], NoLast)

MW_Begin(p, q, allowAPIKey, allowSession) ==
    /\ req[p].pc = "idle"
    /\ Presentable(q.cookie)
    /\ Apply(p, StepBegin(sessStore, q, allowAPIKey, allowSession))

MW_APIKey(p) == req[p].pc = "apikey" /\ Apply(p, StepAPIKey(Mine(p), now))
AS_StoreGet(p) == req[p].pc = "store_get" /\ Apply(p, StepStoreGet(Mine(p), now))
AS_StoreDel(p) == req[p].pc = "store_del" /\ Apply(p, StepStoreDel(Mine(p), now))
AS_MgrGet(p) == req[p].pc = "mgr_get" /\ Apply(p, StepMgrGet(Mine(p), now))
AS_Refresh(p) == req[p].pc = "refresh" /\ Apply(p, StepRefresh(Mine(p), now))
AS_StoreSet(p) == req[p].pc = "store_set" /\ Apply(p, StepStoreSet(Mine(p), now))

\* apikeys.Service.Create for the user of the request context: generates an
\* id and a token, stores the hash of the token
NextKeyID == Cardinality({k \in KeyIDs : keys[k].present}) + 1

KeyCreate(u, scopeIn) ==
    LET scope == IF scopeIn = "" THEN "read_write" ELSE scopeIn
        id == NextKeyID
        token == NextKeyID
    IN /\ id <= MaxKeys
       /\ Valid(scope)
       /\ keys' = [keys EXCEPT ![id] = NewKey(u, scope, token)]
       /\ lastRev' = NoLastRev
       /\ lastList' = NoList
       /\ last' = NoLast
       /\ UNCHANGED <<now, sessVars, rlVars, obsVars, req, rev>>

\* Repository.ListByUser: the columns it selects from the rows of the user
ListByUser(tbl, u) ==
    {[ID |-> k, UserID |-> tbl[k].UserID, Scope |-> tbl[k].Scope,
      TokenPrefix |-> tbl[k].TokenPrefix, RevokedAt |-> tbl[k].RevokedAt] :
        k \in {x \in KeyIDs : tbl[x].present /\ tbl[x].UserID = u}}

\* apikeys.Service.List: the caller's keys
KeyList(u) ==
    /\ lastList' = [NoList EXCEPT !.done = TRUE, !.user = u,
                                  !.ids = {k \in KeyIDs : keys[k].present /\ keys[k].UserID = u},
                                  !.rows = ListByUser(keys, u)]
    /\ lastRev' = NoLastRev
    /\ last' = NoLast
    /\ UNCHANGED <<now, sessVars, rlVars, obsVars, req, rev, keys>>

RevApply(p, c) ==
    /\ keys' = c.keys
    /\ rev' = [rev EXCEPT ![p] = c.r]
    /\ lastRev' = c.out
    /\ last' = NoLast
    /\ lastList' = NoList
    /\ UNCHANGED <<now, sessVars, rlVars, obsVars, req>>

\* ids a caller may name: none, a key created before, or one that never exists
KeyPresentable(id) == id = 0 \/ id < NextKeyID \/ id > MaxKeys

Rev_Begin(p, u, id) ==
    /\ rev[p].pc = "idle"
    /\ KeyPresentable(id)
    /\ RevApply(p, RevStepBegin(keys, u, id))

Rev_Exec(p) ==
    /\ rev[p].pc = "exec"
    /\ RevApply(p, RevStepExec(keys, rev[p], now))

\* a Revoke call served with nothing running in between
RevokeCall(u, id) ==
    /\ \A p \in Procs : rev[p].pc = "idle"
    /\ KeyPresentable(id)
    /\ LET c0 == RevStepBegin(keys, u, id)
           c == IF c0.r.pc = "exec" THEN RevStepExec(c0.keys, c0.r, now) ELSE c0
       IN /\ keys' = c.keys
          /\ lastRev' = c.out
    /\ last' = NoLast
    /\ lastList' = NoList
    /\ UNCHANGED <<now, sessVars, rlVars, obsVars, req, rev>>

\* -------------------------------------------------------- specifications

\* ------------------------------------------------------------ users service
NoUserRow == [present |-> FALSE, Email |-> "", PasswordHash |-> 0, Role |-> ""]

\* the users table at the start: usr_1 is an admin, usr_2 is not
InitUsers ==
    [u \in Users |-> [present |-> TRUE, Email |-> IF u = "usr_1" THEN "a@b.com" ELSE "x@y.com",
                      PasswordHash |-> 11,
                      Role |-> IF u = "usr_1" THEN "admin" ELSE "user"]]

\* UserRole.Valid
RoleValid(role) == role \in {"user", "admin"}

\* UpdateUserInput: each of the three fields may be nil
NoInput == [hasEmail |-> FALSE, Email |-> "", hasPassword |-> FALSE, Password |-> 0,
            hasRole |-> FALSE, Role |-> ""]
UserInputs ==
    {NoInput,
     [NoInput EXCEPT !.hasEmail = TRUE, !.Email = "new@b.com",
                     !.hasPassword = TRUE, !.Password = 2],
     [NoInput EXCEPT !.hasRole = TRUE, !.Role = "admin"],
     [NoInput EXCEPT !.hasRole = TRUE, !.Role = "bogus"]}

NoUserRes == [done |-> FALSE, op |-> "", requester |-> "", ctxRole |-> "", target |-> "",
              hasRole |-> FALSE, errKind |-> "", call |-> "none"]

UserOut(tbl, kind, call) == [tbl |-> tbl, errKind |-> kind, call |-> call]

\* Repository.Update: the UPDATE sets the columns the request carries; a row
\* count of zero is ErrNotFound
StoreUpdate(tbl, id, email, hash, role) ==
    IF email = "" /\ hash = 0 /\ ~RoleValid(role)
    THEN UserOut(tbl, "", "update")
    ELSE IF id \notin Users \/ ~tbl[id].present
    THEN UserOut(tbl, KindNotFound, "update")
    ELSE UserOut([tbl EXCEPT ![id] =
                     [present |-> TRUE,
                      Email |-> IF email # "" THEN email ELSE tbl[id].Email,
                      PasswordHash |-> IF hash # 0 THEN hash ELSE tbl[id].PasswordHash,
                      Role |-> IF RoleValid(role) THEN role ELSE tbl[id].Role]],
                 "", "update")

\* variant: the role of the request is not held against the requester
updateWithTarget_RoleUnchecked(tbl, requesterID, isAdmin, targetID, in) ==
    IF requesterID # targetID /\ ~isAdmin
    THEN UserOut(tbl, KindForbidden, "none")
    ELSE IF in.hasRole /\ ~RoleValid(in.Role)
    THEN UserOut(tbl, KindInvalidInput, "none")
    ELSE StoreUpdate(tbl, targetID, IF in.hasEmail THEN in.Email ELSE "",
                     IF in.hasPassword THEN in.Password + 10 ELSE 0,
                     IF in.hasRole THEN in.Role ELSE "")

\* Service.updateWithTarget
updateWithTarget(tbl, requesterID, isAdmin, targetID, in) ==
    IF requesterID # targetID /\ ~isAdmin
    THEN UserOut(tbl, KindForbidden, "none")
    ELSE IF in.hasRole /\ ~isAdmin
    THEN UserOut(tbl, KindForbidden, "none")
    ELSE IF in.hasRole /\ ~RoleValid(in.Role)
    THEN UserOut(tbl, KindInvalidInput, "none")
    ELSE LET email == IF in.hasEmail THEN in.Email ELSE ""
             hash == IF in.hasPassword THEN in.Password + 10 ELSE 0
             role == IF in.hasRole THEN in.Role ELSE ""
         IN IF email = "" /\ hash = 0 /\ ~RoleValid(role)
            THEN UserOut(tbl, "", "none")
            ELSE StoreUpdate(tbl, targetID, email, hash, role)

\* Service.deleteWithTarget with Repository.Delete
deleteWithTarget(tbl, requesterID, isAdmin, targetID) ==
    IF requesterID # targetID /\ ~isAdmin
    THEN UserOut(tbl, KindForbidden, "none")
    ELSE IF targetID \notin Users \/ ~tbl[targetID].present
    THEN UserOut(tbl, KindNotFound, "delete")
    ELSE UserOut([tbl EXCEPT ![targetID] = NoUserRow], "", "delete")

UserOps == {"UpdateSelf", "UpdateByID", "DeleteSelf", "DeleteByID"}

\* UpdateSelf, UpdateByID, DeleteSelf and DeleteByID for a requester with an ID
UserRun(tbl, op, requesterID, ctxRole, targetID, in) ==
    LET isAdmin == ctxRole = "admin" IN
    CASE op = "UpdateSelf" -> updateWithTarget(tbl, requesterID, isAdmin, requesterID, in)
      [] op = "DeleteSelf" -> deleteWithTarget(tbl, requesterID, isAdmin, requesterID)
      [] op = "UpdateByID" ->
            IF targetID = "" THEN UserOut(tbl, KindInvalidInput, "none")
            ELSE updateWithTarget(tbl, requesterID, isAdmin, targetID, in)
      [] OTHER ->
            IF targetID = "" THEN UserOut(tbl, KindInvalidInput, "none")
            ELSE deleteWithTarget(tbl, requesterID, isAdmin, targetID)

\* auth.Service.LoginLimiter: a Limiter with a Redis client (as main builds
\* it), a Limiter without a client, or nil
Limiters == {"redis", "no_client", "none"}

\* the state after the services are wired, with one of the stores in B, one of
\* the Manager settings in M and one of the limiter set-ups in L
InitFull(B, M, T, L) ==
    /\ now \in T
    /\ backend \in B
    /\ limiter \in L
    /\ usr = [tbl |-> InitUsers, res |-> NoUserRes]
    /\ mgr \in M
    /\ sessStore = [i \in SessionIDs |-> NoEntry]
    /\ nextID = 1
    /\ keys = [k \in KeyIDs |-> NoKey]
    /\ rl = [k \in RLKeys |-> NoCounter]
    /\ req = [p \in Procs |-> Idle]
    /\ rev = [p \in Procs |-> NoRev]
    /\ loggedOut = {}
    /\ hist = <<>>
    /\ lim = [p \in Procs |-> ""]
    /\ lastLogin = NoLogin
    /\ rf = NoRefresh
    /\ last = NoLast
    /\ lastRev = NoLastRev
    /\ lastList = NoList

\* the state after main has wired the services
InitAt(B, M, T) == InitFull(B, M, T, {"redis"})

\* the service as main builds it, at its start
InitWith(B) == InitAt(B, {DefaultManager}, {1})

InitCommon == InitWith(Backends)

\* requests of the session strategy, as browsers send them concurrently
SessionRequests ==
    [method : {"GET", "POST"}, xApiKey : {0}, bearer : {0},
     cookie : SessionIDs, csrf : {0}]

SessBegin(p) == \E q \in SessionRequests : MW_Begin(p, q, FALSE, TRUE)

SessNext ==
    \/ Tick
    \/ Create("usr_1")
    \/ \E sid \in CookieValues : Logout(sid)
    \/ \E p \in Procs :
          \/ SessBegin(p)
          \/ AS_StoreGet(p)
          \/ AS_StoreDel(p)
          \/ AS_MgrGet(p)
          \/ AS_Refresh(p)
          \/ AS_StoreSet(p)

SessSpec == InitCommon /\ [][SessNext]_vars

\* ---- one request at a time ------------------------------------------------
\* the response of the last request has left the server
Deliver ==
    /\ last.done
    /\ last' = NoLast
    /\ UNCHANGED <<now, sessVars, keyVars, rlVars, obsVars, req>>

\* a request served from start to response with nothing running in between
Call(q, allowAPIKey, allowSession) ==
    /\ \A p \in Procs : req[p].pc = "idle"
    /\ ~last.done
    /\ Presentable(q.cookie)
    /\ LET c == Run(StepBegin(sessStore, q, allowAPIKey, allowSession), now) IN
       /\ sessStore' = c.store
       /\ last' = [c.out EXCEPT !.valid0 = SessionValid(sessStore, q.cookie, now),
                                !.storeChanged = c.store # sessStore]
    /\ lastRev' = NoLastRev
    /\ lastList' = NoList
    /\ UNCHANGED <<now, backend, limiter, usr, mgr, nextID, loggedOut, keys, rev, rlVars, obsVars, req>>

BrowserRequests ==
    [method : Methods, xApiKey : {0}, bearer : {0},
     cookie : CookieValues, csrf : CSRFValues]

SeqCall == \E q \in BrowserRequests : Call(q, FALSE, TRUE)

SeqNext ==
    \/ Tick
    \/ \E u \in Users : Create(u)
    \/ \E sid \in CookieValues : Logout(sid)
    \/ SeqCall
    \/ Deliver

SeqSpec == InitCommon /\ [][SeqNext]_vars

\* ------------------------------------------------------------------ claims

\* C1 (as stated): every stored session has ExpiresAt <= CreatedAt + MaxAge.
C1_ExpiresWithinMaxAge ==
    \A id \in SessionIDs :
        sessStore[id].present =>
            sessStore[id].sess.ExpiresAt <= sessStore[id].sess.CreatedAt + MaxAge

\* C1 (amended): every stored session has ExpiresAt <= CreatedAt + MaxAge + TTL,
\* since Refresh extends by TTL from any time up to CreatedAt + MaxAge.
C1_ExpiresWithinMaxAgePlusTTL ==
    \A id \in SessionIDs :
        sessStore[id].present =>
            sessStore[id].sess.ExpiresAt
                <= sessStore[id].sess.CreatedAt + MaxAge + TTL

\* a session refreshed at the last moment the MaxAge cutoff allows
C1_Witness ==
    \E id \in SessionIDs :
        /\ sessStore[id].present
        /\ sessStore[id].sess.LastRefreshedAt > sessStore[id].sess.CreatedAt
        /\ sessStore[id].sess.ExpiresAt = sessStore[id].sess.CreatedAt + MaxAge + TTL

\* C2: an AuthenticateSession call that starts after Logout of its session id
\* has returned is answered Unauthorized, whatever requests were in flight
\* during the logout.
C2_LogoutIsFinal ==
    (last.done /\ last.strategy = "session" /\ last.afterLogout) =>
        last.errKind = KindUnauthorized

\* C3: on a session that is stored and valid, a mutating method with an empty or
\* wrong CSRF token is Forbidden, and GET, HEAD and OPTIONS succeed whatever
\* the CSRF token.
C3_CSRF ==
    (last.done /\ last.strategy = "session" /\ last.valid0) =>
        /\ (last.method \notin {"GET", "HEAD", "OPTIONS"}
              /\ (last.csrf = 0 \/ last.csrf # sessStore[last.cookie].sess.CSRFToken))
                => (last.errKind = KindForbidden /\ ~last.handler)
        /\ last.method \in {"GET", "HEAD", "OPTIONS"}
                => (last.errKind = "" /\ last.handler)

C3_Witness ==
    /\ last.done /\ last.strategy = "session" /\ last.valid0
    /\ last.method = "DELETE"
    /\ last.csrf # 0
    /\ last.csrf # sessStore[last.cookie].sess.CSRFToken
    /\ last.errKind = KindForbidden

\* ---- the API-key registry under concurrent calls ---------------------------
KeyCall ==
    \E t \in TokenValues :
        /\ KeyPresentable(t)
        /\ Call([method |-> "POST", xApiKey |-> t, bearer |-> 0, cookie |-> 0, csrf |-> 0],
                TRUE, FALSE)

KeyNext ==
    \/ Tick
    \/ \E u \in Users : KeyCreate(u, "")
    \/ \E u \in Users : KeyList(u)
    \/ \E p \in Procs, u \in Users, id \in 0..(MaxKeys + 1) : Rev_Begin(p, u, id)
    \/ \E p \in Procs : Rev_Exec(p)
    \/ KeyCall
    \/ Deliver

KeySpec == InitWith({"redis"}) /\ [][KeyNext]_vars

\* ---- the middleware with both strategies, one request at a time -----------
\* X-API-Key alone, Authorization: Bearer alone, both, or neither
Credentials ==
    [xApiKey : TokenValues, bearer : {0}]
        \cup [xApiKey : {0}, bearer : {1}]
        \cup [xApiKey : {MaxKeys + 1}, bearer : {1}]

ApiCall ==
    \E m \in {"GET", "POST", "DELETE"}, cr \in Credentials,
       ck \in CookieValues, cs \in {0, 1},
       allowAPIKey \in BOOLEAN, allowSession \in BOOLEAN :
        /\ KeyPresentable(cr.xApiKey) /\ KeyPresentable(cr.bearer)
        /\ Call([method |-> m, xApiKey |-> cr.xApiKey, bearer |-> cr.bearer,
                 cookie |-> ck, csrf |-> cs], allowAPIKey, allowSession)

\* (the clock stands still here: nothing in the dispatch reads it)
ApiNext ==
    \/ Create("usr_2")
    \/ \E sid \in SessionIDs : Logout(sid)
    \/ \E u \in Users, sc \in {"read", "read_write"} : KeyCreate(u, sc)
    \/ \E u \in Users, id \in KeyIDs : RevokeCall(u, id)
    \/ ApiCall
    \/ Deliver

ApiSpec == InitWith({"redis"}) /\ [][ApiNext]_vars

\* ---- API-key authentication over time, one call at a time -----------------
RegCall ==
    \E m \in Methods, t \in TokenValues :
        /\ KeyPresentable(t)
        /\ Call([method |-> m, xApiKey |-> t, bearer |-> 0, cookie |-> 0, csrf |-> 0],
                TRUE, FALSE)

RegNext ==
    \/ Tick
    \/ \E sc \in Scopes \cup {""} : KeyCreate("usr_1", sc)
    \/ \E u \in Users, id \in KeyIDs : RevokeCall(u, id)
    \/ RegCall
    \/ Deliver

RegSpec == InitWith({"redis"}) /\ [][RegNext]_vars

\* the keys a presented token selects
KeysOfToken(token) ==
    {k \in KeyIDs : keys[k].present /\ keys[k].TokenHash = HashToken(token)}

\* C4: the handler runs only when the one authentication call made for the
\* request returned no error; on an authentication error, or when no strategy
\* applies, the request ends with an error status and the handler does not run.
C4_HandlerOnlyAfterSuccess ==
    last.done =>
        /\ last.handler => (last.attempts = 1 /\ last.errKind = "" /\ last.status = 0)
        /\ (last.errKind # "" \/ last.attempts = 0) =>
               /\ ~last.handler
               /\ last.status \in {401, 403, 500}
               /\ last.ctxUser = ""
               /\ ~last.cookieSet

\* a request with a read-only key and a mutating method was refused with 403
C4_Witness ==
    /\ last.done /\ last.strategy = "apikey"
    /\ last.errKind = KindForbidden /\ last.status = 403 /\ ~last.handler

\* C5: with API-key auth enabled and a non-empty API-key credential the request
\* is authenticated through the API-key path only; cookie and CSRF header have
\* no part in the outcome, and a valid read_write key authenticates any method.
C5_APIKeyPathOnly ==
    (last.done /\ last.allowAPIKey /\ last.apiKey # 0) =>
        /\ last.strategy = "apikey"
        /\ ~last.cookieSet /\ ~last.refreshed /\ last.sess = NoSession
        /\ KeysOfToken(last.apiKey) = {} =>
               (last.errKind = KindUnauthorized /\ ~last.handler)
        /\ \A k \in KeysOfToken(last.apiKey) :
               /\ keys[k].RevokedAt # 0 =>
                      (last.errKind = KindUnauthorized /\ ~last.handler)
               /\ (keys[k].RevokedAt = 0 /\ keys[k].Scope = "read_write") =>
                      (last.handler /\ last.ctxUser = keys[k].UserID)
               /\ (keys[k].RevokedAt = 0 /\ keys[k].Scope = "read") =>
                      (last.handler <=> ~requiresCSRFToken(last.method))

\* a POST with a valid read_write key of usr_1, no CSRF token, and the cookie
\* of a live session of usr_2 on a route that allows both strategies
C5_Witness ==
    /\ last.done /\ last.allowAPIKey /\ last.allowSession
    /\ last.method = "POST" /\ last.csrf = 0
    /\ last.cookie \in SessionIDs /\ last.valid0
    /\ sessStore[last.cookie].sess.UserID = "usr_2"
    /\ last.apiKey # 0 /\ last.handler /\ last.ctxUser = "usr_1"

\* C6: the token of a revoked key is refused as Unauthorized for every method
\* and scope at every later time, exactly as a token that matches no key is,
\* and never as Forbidden.
C6_RevokedIsUnauthorized ==
    (last.done /\ last.apiKey # 0) =>
        ((\A k \in KeysOfToken(last.apiKey) : keys[k].RevokedAt # 0) =>
            /\ last.errKind = KindUnauthorized
            /\ last.errMsg = "unauthorized"
            /\ last.status = 401
            /\ ~last.handler)

\* the token of a revoked read-only key came with a POST after the revocation
C6_Witness ==
    /\ last.done /\ last.method = "POST"
    /\ \E k \in KeysOfToken(last.apiKey) :
          /\ keys[k].Scope = "read"
          /\ keys[k].RevokedAt # 0 /\ keys[k].RevokedAt < now
    /\ last.errKind = KindUnauthorized

\* C7: for a key that is not revoked, scope read is refused as Forbidden on
\* every method other than GET, HEAD and OPTIONS and accepted on those three;
\* scope read_write is accepted on every method.
C7_ScopeDecides ==
    (last.done /\ last.apiKey # 0) =>
        \A k \in KeysOfToken(last.apiKey) :
            keys[k].RevokedAt = 0 =>
                /\ keys[k].Scope = "read" =>
                       IF last.method \in {"GET", "HEAD", "OPTIONS"}
                       THEN last.errKind = ""
                       ELSE last.errKind = KindForbidden /\ last.status = 403
                /\ keys[k].Scope = "read_write" => last.errKind = ""

\* a live read-only key was refused on DELETE
C7_Witness ==
    /\ last.done /\ last.method = "DELETE"
    /\ \E k \in KeysOfToken(last.apiKey) :
          keys[k].Scope = "read" /\ keys[k].RevokedAt = 0
    /\ last.errKind = KindForbidden

\* C8: revocation is monotonic: in no step does a key whose RevokedAt is set
\* come to have RevokedAt unset, also when Revoke calls overlap.
C8_RevocationMonotonic ==
    [][\A k \in KeyIDs : keys[k].RevokedAt # 0 => keys'[k].RevokedAt # 0]_vars

\* a Revoke that overlapped another one has run its UPDATE on a key that was
\* already revoked, and the key is still revoked
C8_Witness ==
    /\ lastRev.done /\ lastRev.errKind = ""
    /\ lastRev.prev.RevokedAt # 0
    /\ keys[lastRev.id].RevokedAt > lastRev.prev.RevokedAt

\* C9 (as stated): Revoke by the owner on a key that is already revoked returns
\* no error and leaves RevokedAt as the first revocation set it.
C9_ReRevokeSucceeds ==
    (lastRev.done /\ lastRev.before.present /\ lastRev.before.UserID = lastRev.user
        /\ lastRev.before.RevokedAt # 0) =>
            /\ lastRev.errKind = ""
            /\ keys[lastRev.id].RevokedAt = lastRev.before.RevokedAt

\* C9 (amended): Revoke by the owner on a key that is already revoked when the
\* call starts returns NotFound and changes nothing.
C9_ReRevokeNotFound ==
    (lastRev.done /\ lastRev.before.present /\ lastRev.before.UserID = lastRev.user
        /\ lastRev.before.RevokedAt # 0) =>
            /\ lastRev.errKind = KindNotFound
            /\ keys[lastRev.id] = lastRev.before

\* the owner re-revokes, at a later time, a key revoked earlier
C9_Witness ==
    /\ lastRev.done /\ lastRev.before.present /\ lastRev.before.UserID = lastRev.user
    /\ lastRev.before.RevokedAt # 0
    /\ now > lastRev.before.RevokedAt
    /\ lastRev.errKind = KindNotFound
\* ------------------------------------------------------------ rate limiter
\* Limiter.Allow's defaults for an unset limit or window
EffLimit == IF Limit <= 0 THEN 5 ELSE Limit
EffWindow == IF Window <= 0 THEN 60 ELSE Window

\* a counter key is there until its expiry time is reached; one without an
\* expiry (expireAt = 0) stays
CounterLive(c, t) == c.present /\ (c.expireAt = 0 \/ t < c.expireAt)

\* PTTL: the time left, -1 for a key without an expiry
PTTL(c, t) == IF c.expireAt = 0 THEN 0 - 1 ELSE c.expireAt - t

\* variant: the expiry is set again on every call
allowScript_ExtendAlways(c, t, limit, window) ==
    LET current == IF CounterLive(c, t) THEN c.count + 1 ELSE 1
        c1 == [present |-> TRUE, count |-> current, expireAt |-> t + window]
    IN [counter |-> c1, current |-> current, allowed |-> ~(current > limit),
        ttl |-> PTTL(c1, t)]

\* variant: the incremented value is read but not stored
allowScript_LostUpdate(c, t, limit, window) ==
    LET current == IF CounterLive(c, t) THEN c.count + 1 ELSE 1
        c1 == [present |-> TRUE, count |-> IF current = 1 THEN 1 ELSE c.count,
               expireAt |-> IF current = 1 THEN t + window ELSE c.expireAt]
    IN [counter |-> c1, current |-> current, allowed |-> ~(current > limit),
        ttl |-> PTTL(c1, t)]

\* variant: the expiry is never set
allowScript_NoExpire(c, t, limit, window) ==
    LET current == IF CounterLive(c, t) THEN c.count + 1 ELSE 1
        c1 == [present |-> TRUE, count |-> current,
               expireAt |-> IF current = 1 THEN 0 ELSE c.expireAt]
    IN [counter |-> c1, current |-> current, allowed |-> ~(current > limit),
        ttl |-> PTTL(c1, t)]

\* allowScript, run atomically by Redis: INCR; PEXPIRE when the counter is new;
\* {0, PTTL} when the count exceeds the limit, else {1, PTTL}
allowScript(c, t, limit, window) ==
    LET current == IF CounterLive(c, t) THEN c.count + 1 ELSE 1
        c1 == [present |-> TRUE, count |-> current,
               expireAt |-> IF current = 1 THEN t + window ELSE c.expireAt]
    IN [counter |-> c1, current |-> current, allowed |-> ~(current > limit),
        ttl |-> PTTL(c1, t)]

\* what one Allow call leaves in the history
HistEntry(key, t, res, overlap) ==
    [key |-> key, at |-> t, allowed |-> res.allowed, retryAfter |-> res.ttl,
     count |-> res.current, overlap |-> overlap]

\* Limiter.Allow(key) with a configured client, nothing else in between
Allow(key) ==
    /\ Len(hist) < MaxCalls
    /\ \A p \in Procs : lim[p] = ""
    /\ LET res == allowScript(rl[key], now, EffLimit, EffWindow) IN
       /\ rl' = [rl EXCEPT ![key] = res.counter]
       /\ hist' = Append(hist, HistEntry(key, now, res, FALSE))
    /\ UNCHANGED <<now, sessVars, keyVars, req, last, lim, obsVars>>

\* the keys the direct calls use
DirectKeys == {"login:ip:1.1.1.1", "login:email:a@b.com"}

RLNext ==
    \/ Tick
    \/ \E key \in DirectKeys : Allow(key)

RLSpec == InitWith({"redis"}) /\ [][RLNext]_vars

\* Limiter.Allow by process p: the script is sent to Redis ...
Allow_Send(p, key) ==
    /\ lim[p] = ""
    /\ Len(hist) + Cardinality({q \in Procs : lim[q] # ""}) < MaxCalls
    /\ lim' = [lim EXCEPT ![p] = key]
    /\ UNCHANGED <<now, sessVars, keyVars, req, last, rl, hist, obsVars>>

\* ... and Redis runs it, one script at a time, and answers
Allow_Exec(p) ==
    /\ lim[p] # ""
    /\ LET key == lim[p]
           res == allowScript(rl[key], now, EffLimit, EffWindow)
       IN /\ rl' = [rl EXCEPT ![key] = res.counter]
          /\ hist' = Append(hist, HistEntry(key, now, res,
                                            \E q \in Procs \ {p} : lim[q] = key))
    /\ lim' = [lim EXCEPT ![p] = ""]
    /\ UNCHANGED <<now, sessVars, keyVars, req, last, obsVars>>

RLConcNext ==
    \/ Tick
    \/ \E p \in Procs : Allow_Send(p, "login:email:a@b.com")
    \/ \E p \in Procs : Allow_Exec(p)

RLConcSpec == InitWith({"redis"}) /\ [][RLConcNext]_vars

\* ----------------------------------------------------------------- login
\* strings.ToLower on the spellings the model writes
ToLower(s) ==
    CASE s = "A@B.com" -> "a@b.com"
      [] s = " A@B.com " -> " a@b.com "
      [] OTHER -> s

\* strings.TrimSpace on the spellings the model writes
TrimSpace(s) ==
    CASE s = " a@b.com " -> "a@b.com"
      [] s = " A@B.com " -> "A@B.com"
      [] OTHER -> s

\* variant: the email is trimmed but its case is kept
Normalize_CaseKept(email) == TrimSpace(email)

\* strings.TrimSpace(strings.ToLower(input.Email))
Normalize(email) == TrimSpace(ToLower(email))

\* strings.Contains(email, "@")
HasAt(email) == email \in {"a@b.com", "x@y.com", "A@B.com", " a@b.com ", " A@B.com "}

\* the user table: one user, with the bcrypt hash of password 1
HashPassword(plain) == plain + 10
KnownEmails == {"a@b.com"}
UserByEmail(email) == [ID |-> "usr_1", Email |-> email,
                       PasswordHash |-> HashPassword(1), Role |-> UserRole("usr_1")]

\* bcrypt.CompareHashAndPassword(hashed, plain) returns nil
PasswordVerifier(hashed, plain) == hashed = HashPassword(plain)

\* what can be down during one Login call
Failures == {"none", "limiter", "users", "sessions"}

LoginErr(r, kind, msg) == [r EXCEPT !.errKind = kind, !.errMsg = msg]
LoginOut(rlS, r) == [rl |-> rlS, res |-> r]

\* variant: an unknown email is reported as such
LoginCredentials_TellsUnknown(rlS, r, email, q, t, fail) ==
    IF fail = "users"
    THEN LoginOut(rlS, LoginErr([r EXCEPT !.lookedUp = TRUE, !.hitFailure = TRUE],
                                KindUnauthorized, "invalid credentials"))
    ELSE IF email \notin KnownEmails
    THEN LoginOut(rlS, LoginErr([r EXCEPT !.lookedUp = TRUE],
                                KindNotFound, "user not found"))
    ELSE LET u == UserByEmail(email)
             r1 == [r EXCEPT !.lookedUp = TRUE, !.verified = TRUE] IN
         IF ~PasswordVerifier(u.PasswordHash, q.password)
         THEN LoginOut(rlS, LoginErr(r1, KindUnauthorized, "invalid credentials"))
         ELSE IF fail = "sessions"
         THEN LoginOut(rlS, LoginErr([r1 EXCEPT !.hitFailure = TRUE],
                                     KindInternal, "failed to create session"))
         ELSE LoginOut(rlS, [r1 EXCEPT !.created = TRUE, !.userID = u.ID,
                                       !.role = u.Role,
                                       !.sess = NewSession(nextID, u.ID, u.Role, t)])

\* variant: the session is kept although Sessions.Create reported a failure
LoginCredentials_KeepsSession(rlS, r, email, q, t, fail) ==
    IF fail = "users"
    THEN LoginOut(rlS, LoginErr([r EXCEPT !.lookedUp = TRUE, !.hitFailure = TRUE],
                                KindUnauthorized, "invalid credentials"))
    ELSE IF email \notin KnownEmails
    THEN LoginOut(rlS, LoginErr([r EXCEPT !.lookedUp = TRUE],
                                KindUnauthorized, "invalid credentials"))
    ELSE LET u == UserByEmail(email)
             r1 == [r EXCEPT !.lookedUp = TRUE, !.verified = TRUE] IN
         IF ~PasswordVerifier(u.PasswordHash, q.password)
         THEN LoginOut(rlS, LoginErr(r1, KindUnauthorized, "invalid credentials"))
         ELSE IF fail = "sessions"
         THEN LoginOut(rlS, LoginErr([r1 EXCEPT !.hitFailure = TRUE, !.created = TRUE,
                                                !.sess = NewSession(nextID, u.ID, u.Role, t)],
                                     KindInternal, "failed to create session"))
         ELSE LoginOut(rlS, [r1 EXCEPT !.created = TRUE, !.userID = u.ID,
                                       !.role = u.Role,
                                       !.sess = NewSession(nextID, u.ID, u.Role, t)])

\* Login from the user lookup on
LoginCredentials(rlS, r, email, q, t, fail) ==
    IF fail = "users"
    THEN LoginOut(rlS, LoginErr([r EXCEPT !.lookedUp = TRUE, !.hitFailure = TRUE],
                                KindUnauthorized, "invalid credentials"))
    ELSE IF email \notin KnownEmails
    THEN LoginOut(rlS, LoginErr([r EXCEPT !.lookedUp = TRUE],
                                KindUnauthorized, "invalid credentials"))
    ELSE LET u == UserByEmail(email)
             r1 == [r EXCEPT !.lookedUp = TRUE, !.verified = TRUE] IN
         IF ~PasswordVerifier(u.PasswordHash, q.password)
         THEN LoginOut(rlS, LoginErr(r1, KindUnauthorized, "invalid credentials"))
         ELSE IF fail = "sessions"
         THEN LoginOut(rlS, LoginErr([r1 EXCEPT !.hitFailure = TRUE],
                                     KindInternal, "failed to create session"))
         ELSE LoginOut(rlS, [r1 EXCEPT !.created = TRUE, !.userID = u.ID,
                                       !.role = u.Role,
                                       !.sess = NewSession(nextID, u.ID, u.Role, t)])

\* variant: the script runs although the Limiter has no client
LimiterAllow_AlwaysScript(c, t) == allowScript(c, t, EffLimit, EffWindow)

\* Limiter.Allow: without a client every call is allowed and nothing is counted
LimiterAllow(c, t) ==
    IF limiter = "no_client"
    THEN [counter |-> c, current |-> 0, allowed |-> TRUE, ttl |-> 0]
    ELSE allowScript(c, t, EffLimit, EffWindow)

\* variant: a denial by the email counter is ignored
LoginEmailLimit_IgnoreDenial(rlS, r, email, q, t, fail) ==
    IF fail = "limiter"
    THEN LoginOut(rlS, LoginErr([r EXCEPT !.hitFailure = TRUE],
                                KindInternal, "rate limit error"))
    ELSE LET key == "login:email:" \o email
             a == allowScript(rlS[key], t, EffLimit, EffWindow)
             rl1 == [rlS EXCEPT ![key] = a.counter]
             r1 == [r EXCEPT !.emailCalls = 1]
         IN LoginCredentials(rl1, r1, email, q, t, fail)

\* Login: the Allow call on the email key
LoginEmailLimit(rlS, r, email, q, t, fail) ==
    IF limiter = "none"
    THEN LoginCredentials(rlS, r, email, q, t, fail)
    ELSE IF fail = "limiter" /\ limiter = "redis"
    THEN LoginOut(rlS, LoginErr([r EXCEPT !.hitFailure = TRUE],
                                KindInternal, "rate limit error"))
    ELSE LET key == "login:email:" \o email
             a == LimiterAllow(rlS[key], t)
             rl1 == [rlS EXCEPT ![key] = a.counter]
             r1 == [r EXCEPT !.emailCalls = 1]
         IN IF ~a.allowed
            THEN LoginOut(rl1, LoginErr([r1 EXCEPT !.retryAfter = a.ttl],
                                        KindRateLimited, "too many requests"))
            ELSE LoginCredentials(rl1, r1, email, q, t, fail)

\* variant: both counters are incremented before either result is looked at
LoginIPLimit_BothCounted(rlS, r, email, q, t, fail) ==
    IF q.ip = "" \/ limiter = "none"
    THEN LoginEmailLimit(rlS, r, email, q, t, fail)
    ELSE IF fail = "limiter" /\ limiter = "redis"
    THEN LoginOut(rlS, LoginErr([r EXCEPT !.hitFailure = TRUE],
                                KindInternal, "rate limit error"))
    ELSE LET key == "login:ip:" \o q.ip
             a == LimiterAllow(rlS[key], t)
             rl1 == [rlS EXCEPT ![key] = a.counter]
             r1 == [r EXCEPT !.ipCalls = 1]
             key2 == "login:email:" \o email
             a2 == LimiterAllow(rl1[key2], t)
             rl2 == [rl1 EXCEPT ![key2] = a2.counter]
         IN IF ~a.allowed
            THEN LoginOut(rl2, LoginErr([r1 EXCEPT !.retryAfter = a.ttl],
                                        KindRateLimited, "too many requests"))
            ELSE LoginEmailLimit(rl1, r1, email, q, t, fail)

\* Login: the Allow call on the IP key, made when the client IP is not empty
LoginIPLimit(rlS, r, email, q, t, fail) ==
    IF q.ip = "" \/ limiter = "none"
    THEN LoginEmailLimit(rlS, r, email, q, t, fail)
    ELSE IF fail = "limiter" /\ limiter = "redis"
    THEN LoginOut(rlS, LoginErr([r EXCEPT !.hitFailure = TRUE],
                                KindInternal, "rate limit error"))
    ELSE LET key == "login:ip:" \o q.ip
             a == LimiterAllow(rlS[key], t)
             rl1 == [rlS EXCEPT ![key] = a.counter]
             r1 == [r EXCEPT !.ipCalls = 1]
         IN IF ~a.allowed
            THEN LoginOut(rl1, LoginErr([r1 EXCEPT !.retryAfter = a.ttl],
                                        KindRateLimited, "too many requests"))
            ELSE LoginEmailLimit(rl1, r1, email, q, t, fail)

\* variant: the rate limiter is asked before the input is validated
LoginRun_LimitFirst(rlS, q, t, fail) ==
    LET email == Normalize(q.email)
        r == [NoLogin EXCEPT !.done = TRUE, !.email = q.email,
                             !.password = q.password, !.ip = q.ip, !.fail = fail]
        o == LoginIPLimit(rlS, r, IF HasAt(email) THEN email ELSE "a@b.com", q, t, fail)
    IN IF o.res.errKind = KindRateLimited THEN o
       ELSE IF email = "" \/ q.password = 0
       THEN LoginOut(o.rl, LoginErr(r, KindInvalidInput, "email and password are required"))
       ELSE IF ~HasAt(email)
       THEN LoginOut(o.rl, LoginErr(r, KindInvalidInput, "invalid email"))
       ELSE o

\* auth.Service.Login with Users, Sessions and LoginLimiter configured
LoginRun(rlS, q, t, fail) ==
    LET email == Normalize(q.email)
        r == [NoLogin EXCEPT !.done = TRUE, !.email = q.email,
                             !.password = q.password, !.ip = q.ip, !.fail = fail]
    IN IF email = "" \/ q.password = 0
       THEN LoginOut(rlS, LoginErr(r, KindInvalidInput, "email and password are required"))
       ELSE IF ~HasAt(email)
       THEN LoginOut(rlS, LoginErr(r, KindInvalidInput, "invalid email"))
       ELSE LoginIPLimit(rlS, r, email, q, t, fail)

\* a counter that the next increment takes past the limit
OverLimit(c, t) == CounterLive(c, t) /\ c.count >= EffLimit

\* the counters one Login call may touch
LoginKeys(q) ==
    (IF q.ip = "" THEN {} ELSE {"login:ip:" \o q.ip})
        \cup (IF HasAt(Normalize(q.email)) THEN {"login:email:" \o Normalize(q.email)}
              ELSE {})

\* one Login call, served with nothing else in between
LoginBody(q, fail) ==
    /\ ~lastLogin.done
    /\ \A key \in LoginKeys(q) : rl[key].count <= EffLimit
    /\ LET out == LoginRun(rl, q, now, fail) IN
       /\ out.res.created => nextID <= MaxSessions
       /\ rl' = out.rl
       /\ lastLogin' =
            [out.res EXCEPT
               !.ipOver = q.ip # "" /\ OverLimit(rl["login:ip:" \o q.ip], now),
               !.emailOver = HasAt(Normalize(q.email))
                               /\ OverLimit(rl["login:email:" \o Normalize(q.email)], now),
               !.known = Normalize(q.email) \in KnownEmails]
       /\ IF out.res.created
          THEN /\ sessStore' = StoreSet(sessStore, nextID, out.res.sess, TTL, now)
               /\ nextID' = nextID + 1
          ELSE UNCHANGED <<sessStore, nextID>>
    /\ last' = NoLast
    /\ UNCHANGED <<now, backend, limiter, usr, mgr, loggedOut, keyVars, lim, rf, req>>

Login(q, fail) == LoginBody(q, fail) /\ UNCHANGED hist

\* the caller has taken the result
LoginReturn ==
    /\ lastLogin.done
    /\ lastLogin' = NoLogin
    /\ UNCHANGED <<now, sessVars, keyVars, rlVars, rf, req, last>>

LoginInputs ==
    [email : {"a@b.com", "x@y.com"}, password : {1, 2}, ip : {"", "1.1.1.1"}]
        \cup [email : {"", "nobody", " A@B.com "}, password : {1}, ip : {""}]
        \cup [email : {"a@b.com"}, password : {0}, ip : {"1.1.1.1"}]

\* the calls during which something is down
FailingCalls ==
    {<<[email |-> "a@b.com", password |-> 1, ip |-> "1.1.1.1"], f>> :
        f \in Failures \ {"none"}}
      \cup {<<[email |-> "x@y.com", password |-> 2, ip |-> ""], "users">>}

LoginNext ==
    \/ Tick
    \/ \E q \in LoginInputs : Login(q, "none")
    \/ \E c \in FailingCalls : Login(c[1], c[2])
    \/ LoginReturn

LoginSpec == InitWith({"redis"}) /\ [][LoginNext]_vars

\* the calls before call i that were made for the same key
EarlierSameKey(i) == {j \in 1..(i - 1) : hist[j].key = hist[i].key}

\* the fixed window call i falls into, from the history alone: its start and
\* the position of call i within it
RECURSIVE WindowOf(_)
WindowOf(i) ==
    IF EarlierSameKey(i) = {}
    THEN [start |-> hist[i].at, n |-> 1]
    ELSE LET j == CHOOSE x \in EarlierSameKey(i) : \A y \in EarlierSameKey(i) : y <= x
             w == WindowOf(j)
         IN IF hist[i].at >= w.start + EffWindow
            THEN [start |-> hist[i].at, n |-> 1]
            ELSE [start |-> w.start, n |-> w.n + 1]

SameWindow(i) ==
    {j \in 1..Len(hist) :
        hist[j].key = hist[i].key /\ WindowOf(j).start = WindowOf(i).start}

\* C11: of the Allow calls on one key within one window, however they overlap,
\* at most Limit return allowed = true, and no two observe the same counter
\* value.
C11_AtMostLimitPerWindow ==
    \A i \in 1..Len(hist) :
        /\ Cardinality({j \in SameWindow(i) : hist[j].allowed}) <= EffLimit
        /\ \A j \in SameWindow(i) : j # i => hist[j].count # hist[i].count

\* Limit + 1 calls on one key ran in one window, the denied one while another
\* call for the same key was on its way
C11_Witness ==
    \E i \in 1..Len(hist) :
        /\ hist[i].overlap /\ ~hist[i].allowed
        /\ \E j \in SameWindow(i) : j < i /\ hist[j].overlap /\ hist[j].allowed
        /\ Cardinality({j \in SameWindow(i) : hist[j].allowed}) = EffLimit

\* C12: every key that holds a counter has an expiry set, and no Allow call
\* returns having read a counter without one.
C12_CounterHasTTL ==
    /\ \A key \in RLKeys : rl[key].present => rl[key].expireAt # 0
    /\ \A i \in 1..Len(hist) : hist[i].retryAfter >= 1

\* a counter created by one call was read again by a later one before it expired
C12_Witness ==
    \E key \in RLKeys :
        /\ rl[key].present /\ rl[key].count >= 2 /\ now < rl[key].expireAt
        /\ \E i \in 1..Len(hist) : hist[i].key = key /\ hist[i].count = 2

\* a Login call with a well-formed email and a password, the limiter answering
WellFormedLogin ==
    /\ lastLogin.done /\ lastLogin.fail # "limiter"
    /\ HasAt(Normalize(lastLogin.email)) /\ lastLogin.password # 0

\* C13: Login returns RateLimited with the retry-after time whenever the IP
\* counter or the email counter is over its limit, whatever the other one is,
\* and then looks up no user, verifies no password and creates no session.
C13_EitherCounterBlocks ==
    (WellFormedLogin /\ (lastLogin.ipOver \/ lastLogin.emailOver)) =>
        /\ lastLogin.errKind = KindRateLimited
        /\ lastLogin.retryAfter >= 1
        /\ ~lastLogin.lookedUp /\ ~lastLogin.verified /\ ~lastLogin.created
        /\ lastLogin.sess = NoSession

\* the right password of a known user from an IP under its limit was refused
\* because the email counter was over its limit
C13_Witness ==
    /\ WellFormedLogin /\ lastLogin.fail = "none"
    /\ lastLogin.ip # "" /\ ~lastLogin.ipOver /\ lastLogin.emailOver
    /\ lastLogin.known /\ lastLogin.password = 1
    /\ lastLogin.errKind = KindRateLimited

\* Login with an email of no user, and with the email of a user and a wrong
\* password, from the same address
ResultUnknownEmail(ip) ==
    LoginRun(rl, [email |-> "x@y.com", password |-> 2, ip |-> ip], now, "none").res
ResultWrongPassword(ip) ==
    LoginRun(rl, [email |-> "a@b.com", password |-> 2, ip |-> ip], now, "none").res

\* C14: in one rate-limit state, Login with an email that matches no user and
\* Login with an existing email and a wrong password return the same error
\* kind and message, Unauthorized when neither is rate limited.
C14_NoEnumeration ==
    \A ip \in {"", "1.1.1.1"} :
        rl["login:email:x@y.com"] = rl["login:email:a@b.com"] =>
            /\ ResultUnknownEmail(ip).errKind = ResultWrongPassword(ip).errKind
            /\ ResultUnknownEmail(ip).errMsg = ResultWrongPassword(ip).errMsg
            /\ ResultUnknownEmail(ip).retryAfter = ResultWrongPassword(ip).retryAfter
            /\ ResultUnknownEmail(ip).errKind \in {KindUnauthorized, KindRateLimited}
            /\ ~ResultUnknownEmail(ip).created /\ ~ResultWrongPassword(ip).created

\* a wrong password for the known user was refused as Unauthorized, the two
\* email counters standing alike and a further attempt still being let through
C14_Witness ==
    /\ lastLogin.done /\ lastLogin.known /\ lastLogin.verified
    /\ lastLogin.errKind = KindUnauthorized
    /\ rl["login:email:a@b.com"].present
    /\ rl["login:email:x@y.com"] = rl["login:email:a@b.com"]
    /\ ResultUnknownEmail("").errKind = KindUnauthorized
    /\ ResultUnknownEmail("").lookedUp /\ ~ResultUnknownEmail("").verified

\* C15: a Login call that met an unavailable backing store (rate limiter, user
\* store or session store) returns an error of kind Internal.
C15_UnavailableIsInternal ==
    (lastLogin.done /\ lastLogin.hitFailure) => lastLogin.errKind = KindInternal

\* C16: a session id that is malformed or not in the store, and an API-key
\* token that matches no key, are always refused as Unauthorized, whatever the
\* method and the CSRF header; an unknown session on a mutating method without
\* a CSRF token is Unauthorized, not Forbidden.
C16_UnknownIsUnauthorized ==
    last.done =>
        /\ (last.strategy = "session"
               /\ (last.cookie \notin SessionIDs \/ ~sessStore[last.cookie].present)) =>
              (last.errKind = KindUnauthorized /\ last.status = 401 /\ ~last.handler)
        /\ (last.strategy = "apikey" /\ KeysOfToken(last.apiKey) = {}) =>
              (last.errKind = KindUnauthorized /\ last.status = 401 /\ ~last.handler)

\* a POST without a CSRF token carried a session id that was never issued
C16_Witness ==
    /\ last.done /\ last.strategy = "session"
    /\ last.method = "POST" /\ last.csrf = 0
    /\ last.cookie # 0 /\ last.cookie \notin SessionIDs
    /\ last.errKind = KindUnauthorized

\* the request that completed last, sent again with a session id that is not
\* in the store
WithUnknownSession ==
    Run(StepBegin(sessStore, [method |-> last.method, xApiKey |-> 0, bearer |-> 0,
                              cookie |-> MaxSessions + 1, csrf |-> last.csrf],
                  FALSE, TRUE), now)

\* C17 (as stated): a request without a session cookie gets the same error
\* kind, message and status as one with an unknown session id, and the store
\* is not changed.
C17_AbsentSameAsUnknown ==
    (last.done /\ last.strategy = "session" /\ last.cookie = 0) =>
        /\ last.errKind = WithUnknownSession.out.errKind
        /\ last.errMsg = WithUnknownSession.out.errMsg
        /\ last.status = WithUnknownSession.out.status
        /\ ~last.storeChanged /\ WithUnknownSession.store = sessStore

\* C17 (amended): a request without a session cookie gets the same error kind
\* (Unauthorized) and status (401) as one with an unknown session id, and the
\* store is not changed; the messages are "missing session" and "unauthorized".
C17_AbsentSameKindAsUnknown ==
    (last.done /\ last.strategy = "session" /\ last.cookie = 0) =>
        /\ last.errKind = KindUnauthorized
        /\ last.errKind = WithUnknownSession.out.errKind
        /\ last.status = WithUnknownSession.out.status
        /\ ~last.handler /\ ~WithUnknownSession.out.handler
        /\ last.errMsg = "missing session"
        /\ WithUnknownSession.out.errMsg = "unauthorized"
        /\ ~last.storeChanged /\ WithUnknownSession.store = sessStore

\* a POST without a session cookie was refused while a session was stored
C17_Witness ==
    /\ last.done /\ last.strategy = "session" /\ last.cookie = 0
    /\ last.method = "POST" /\ last.status = 401
    /\ \E id \in SessionIDs : sessStore[id].present

\* ------------------------------------------ Manager.Refresh called directly
\* TTL = 1h, MaxAge = 8h, RefreshBefore = 10m in ticks of five minutes
ScenarioManager == [TTL |-> 12, MaxAge |-> 96, RefreshBefore |-> 2]

\* the configurations Refresh is called under
Managers ==
    {DefaultManager, ScenarioManager,
     [TTL |-> 2, MaxAge |-> 3, RefreshBefore |-> 0],
     [TTL |-> 0, MaxAge |-> 3, RefreshBefore |-> 1],
     [TTL |-> 2, MaxAge |-> 0, RefreshBefore |-> 1]}

\* the sessions the Manager can have stored by now: created at c and never
\* refreshed, or refreshed once at l, when RefreshBefore or less was left
RefreshTimes(c) ==
    {x \in 1..now :
        \/ x = c
        \/ /\ TTL > 0 /\ x > c /\ x <= c + TTL
           /\ (MaxAge > 0 => x <= c + MaxAge)
           /\ (RefreshBefore > 0 => c + TTL - x <= RefreshBefore)}
StoredSessions ==
    UNION {{[NewSession(1, "usr_1", UserRole("usr_1"), c)
               EXCEPT !.LastRefreshedAt = l, !.ExpiresAt = l + TTL] :
               l \in RefreshTimes(c)} : c \in 1..now}

\* the store as Create and Refresh have left it
Stored(s) ==
    /\ ~sessStore[s.ID].present /\ ~rf.done
    /\ sessStore' = StoreSet(sessStore, s.ID, s, TTL, s.LastRefreshedAt)
    /\ UNCHANGED <<now, backend, limiter, usr, mgr, nextID, loggedOut, keyVars, rlVars, obsVars,
                   req, last>>

\* Manager.Refresh on the stored session, with nothing else in between
RefreshCall(id) ==
    /\ sessStore[id].present /\ ~rf.done
    /\ LET s == sessStore[id].sess
           c0 == Cfg(sessStore, [Idle EXCEPT !.pc = "refresh", !.method = "GET",
                                             !.cookie = id, !.sess = s], NoLast)
           c1 == Step(c0, now)
           c2 == Run(c1, now)
       IN /\ sessStore' = c2.store
          /\ rf' = [done |-> TRUE, at |-> now, before |-> s, after |-> c2.out.sess,
                    refreshed |-> c2.out.refreshed, err |-> c2.out.errKind,
                    wrote |-> c1.r.pc = "store_set",
                    deleted |-> ~c2.store[id].present, fault |-> FALSE]
    /\ UNCHANGED <<now, backend, limiter, usr, mgr, nextID, loggedOut, keyVars, rlVars, lastLogin,
                   req, last>>

RefNext ==
    \/ \E s \in StoredSessions : Stored(s)
    \/ \E id \in SessionIDs : RefreshCall(id)

RefSpec == InitAt({"redis"}, Managers, 1..MaxRefTime) /\ [][RefNext]_vars

\* the time left until the session given to Refresh expires
Remaining == rf.before.ExpiresAt - rf.at
\* the session given to Refresh is within MaxAge
WithinMaxAge == MaxAge > 0 => rf.at <= rf.before.CreatedAt + MaxAge
\* Refresh gave the session back as it was and wrote nothing
RefreshNoOp ==
    /\ rf.err = "" /\ ~rf.refreshed /\ rf.after = rf.before
    /\ ~rf.wrote /\ sessStore[rf.before.ID].sess = rf.before
\* Refresh extended the session and wrote it back
RefreshExtended ==
    /\ rf.err = "" /\ rf.refreshed /\ rf.wrote
    /\ rf.after = [rf.before EXCEPT !.ExpiresAt = rf.at + TTL,
                                    !.LastRefreshedAt = rf.at]
    /\ sessStore[rf.before.ID].present
    /\ sessStore[rf.before.ID].sess = rf.after

\* C18 (as stated): whenever more than RefreshBefore is left until ExpiresAt and
\* the session is within MaxAge, Refresh returns it unchanged with refreshed =
\* false and writes nothing.
C18_NoOpWhenFar ==
    (rf.done /\ Remaining > RefreshBefore /\ WithinMaxAge) => RefreshNoOp

\* C18 (amended): with RefreshBefore > 0, Refresh is such a no-op whenever more
\* than RefreshBefore is left; with RefreshBefore <= 0 and TTL > 0 it extends
\* the session on every call within MaxAge.
C18_NoOpWhenFarAndSet ==
    (rf.done /\ WithinMaxAge) =>
        /\ (RefreshBefore > 0 /\ Remaining > RefreshBefore) => RefreshNoOp
        /\ (RefreshBefore <= 0 /\ TTL > 0) => RefreshExtended

\* Refresh left alone a session that had more than RefreshBefore > 0 to go
C18_Witness ==
    /\ rf.done /\ RefreshBefore > 0 /\ TTL > 0 /\ Remaining > RefreshBefore
    /\ rf.at > rf.before.CreatedAt /\ ~rf.refreshed /\ ~rf.wrote

\* C19 (as stated): whenever at most RefreshBefore is left until ExpiresAt and
\* the session is within MaxAge, Refresh sets ExpiresAt = now + TTL and
\* LastRefreshedAt = now, writes the session back and returns refreshed = true,
\* leaving ID, user, role, CreatedAt and CSRF token as they were.
C19_ExtendsWhenNear ==
    (rf.done /\ Remaining <= RefreshBefore /\ WithinMaxAge) => RefreshExtended

\* C19 (amended): the same with TTL > 0; with TTL <= 0 Refresh returns the
\* session unchanged with refreshed = false and writes nothing.
C19_ExtendsWhenNearAndTTL ==
    rf.done =>
        /\ (TTL > 0 /\ Remaining <= RefreshBefore /\ WithinMaxAge) => RefreshExtended
        /\ TTL <= 0 => RefreshNoOp

\* Refresh extended a session that had RefreshBefore or less to go
C19_Witness ==
    /\ rf.done /\ TTL > 0 /\ RefreshBefore > 0
    /\ Remaining <= RefreshBefore /\ Remaining >= 1
    /\ rf.refreshed /\ rf.after.ExpiresAt = rf.at + TTL
    /\ rf.after.CSRFToken = rf.before.CSRFToken

\* a session of the scenario, created at T0 and not refreshed yet
ScenarioFresh ==
    /\ rf.done /\ mgr = ScenarioManager
    /\ rf.before.LastRefreshedAt = rf.before.CreatedAt

\* C20 (as stated): with TTL = 1h, MaxAge = 8h, RefreshBefore = 10m and a session
\* created at T0, Refresh at T0 + 50m returns it unchanged with refreshed =
\* false, and Refresh at T0 + 55m returns ExpiresAt = T0 + 55m + 1h with
\* refreshed = true.
C20_Scenario ==
    ScenarioFresh =>
        /\ rf.at = rf.before.CreatedAt + 10 => RefreshNoOp
        /\ rf.at = rf.before.CreatedAt + 11 =>
               (rf.refreshed /\ rf.after.ExpiresAt = rf.before.CreatedAt + 11 + 12)

\* C20 (amended): Refresh before T0 + 50m returns the session unchanged with
\* refreshed = false; at T0 + 50m, with exactly RefreshBefore left, it already
\* returns ExpiresAt = T0 + 50m + 1h with refreshed = true, and at T0 + 55m
\* ExpiresAt = T0 + 55m + 1h with refreshed = true.
C20_ScenarioAtBoundary ==
    ScenarioFresh =>
        /\ rf.at < rf.before.CreatedAt + 10 => RefreshNoOp
        /\ rf.at = rf.before.CreatedAt + 10 =>
               (RefreshExtended /\ rf.after.ExpiresAt = rf.before.CreatedAt + 10 + 12)
        /\ rf.at = rf.before.CreatedAt + 11 =>
               (RefreshExtended /\ rf.after.ExpiresAt = rf.before.CreatedAt + 11 + 12)

\* Refresh ran at T0 + 50m on the scenario's session and extended it
C20_Witness ==
    /\ ScenarioFresh /\ rf.at = rf.before.CreatedAt + 10
    /\ rf.refreshed /\ rf.after.ExpiresAt = rf.at + 12

\* ---------------------------------------------- Manager.Get called directly
\* SESSION_TTL longer than SESSION_MAX_AGE, as in main's defaults (7d and 8h)
LongTTLManager == [TTL |-> 3, MaxAge |-> 1, RefreshBefore |-> 1]

\* what a reader of the store finds at time t: a Redis key past its expiry is
\* gone although the model keeps its record
Contents(store, t) ==
    [id \in SessionIDs |-> IF StoreHas(store, id, t) THEN store[id].sess ELSE NoSession]

\* Manager.Get on a safe method: the steps up to the point where
\* AuthenticateSession would go on to Refresh
RECURSIVE GetRun(_, _)
GetRun(c, t) == IF c.r.pc \in {"idle", "refresh"} THEN c ELSE GetRun(Step(c, t), t)

ManagerGet(store, id, t) ==
    LET c == GetRun(Cfg(store, [Idle EXCEPT !.pc = "store_get", !.method = "GET",
                                            !.cookie = id], NoLast), t)
    IN [store |-> c.store,
        err |-> IF c.r.pc = "refresh" THEN "" ELSE KindNotFound,
        sess |-> IF c.r.pc = "refresh" THEN c.r.sess ELSE NoSession]

\* Manager.Get(id), with nothing else in between
GetCall(id) ==
    /\ sessStore[id].present /\ ~rf.done
    /\ LET g == ManagerGet(sessStore, id, now) IN
       /\ sessStore' = g.store
       /\ rf' = [done |-> TRUE, at |-> now, before |-> sessStore[id].sess,
                 after |-> g.sess, refreshed |-> FALSE, err |-> g.err,
                 wrote |-> FALSE, deleted |-> ~StoreHas(g.store, id, now),
                 fault |-> FALSE]
    /\ UNCHANGED <<now, backend, limiter, usr, mgr, nextID, loggedOut, keyVars, rlVars, lastLogin,
                   req, last>>

GetNext ==
    \/ \E s \in StoredSessions : Stored(s)
    \/ \E id \in SessionIDs : GetCall(id)

GetSpec == InitAt(Backends, {DefaultManager, LongTTLManager}, 1..MaxTime) /\ [][GetNext]_vars

\* C21: Get on a session past CreatedAt + MaxAge returns NotFound and removes
\* it from the store even when its sliding expiry has not elapsed; after that
\* another Get returns NotFound and Delete succeeds, and neither changes the
\* store.
C21_MaxAgeCutoff ==
    (rf.done /\ MaxAge > 0 /\ rf.at > rf.before.CreatedAt + MaxAge) =>
        /\ rf.err = KindNotFound /\ rf.after = NoSession
        /\ rf.deleted /\ Contents(sessStore, now)[rf.before.ID] = NoSession
        /\ ManagerGet(sessStore, rf.before.ID, now).err = KindNotFound
        /\ Contents(ManagerGet(sessStore, rf.before.ID, now).store, now)
               = Contents(sessStore, now)
        /\ Contents(StoreDelete(sessStore, rf.before.ID), now) = Contents(sessStore, now)

\* Get refused and removed a session past MaxAge that had time left to expiry
C21_Witness ==
    /\ rf.done /\ MaxAge > 0 /\ rf.at > rf.before.CreatedAt + MaxAge
    /\ rf.at < rf.before.ExpiresAt
    /\ rf.err = KindNotFound /\ rf.deleted

\* C22: a session's CSRF token is the one generated when it was created, in
\* the store and in every copy Get, Refresh (concurrent ones included) and
\* AuthenticateSession hand out; a different token belongs to a different ID.
C22_CSRFTokenStable ==
    /\ \A id \in SessionIDs : sessStore[id].present =>
           /\ sessStore[id].sess.ID = id
           /\ sessStore[id].sess.CSRFToken = NewCSRFToken(id)
    /\ \A p \in Procs : req[p].sess.ID # 0 =>
           req[p].sess.CSRFToken = NewCSRFToken(req[p].sess.ID)

\* two requests are writing back a refresh of a session that was already
\* refreshed once
C22_Witness ==
    \E id \in SessionIDs :
        /\ sessStore[id].present
        /\ sessStore[id].sess.LastRefreshedAt > sessStore[id].sess.CreatedAt
        /\ sessStore[id].sess.CSRFToken = NewCSRFToken(id)
        /\ \A p \in Procs : req[p].pc = "store_set" /\ req[p].sess.ID = id

\* ------------------------------------------- Manager.Create called directly
\* variant: the session stays in the store when Create reports the failed write
ManagerCreate_StoresOnFailure(store, id, userID, role, t, setFails) ==
    LET s == NewSession(id, userID, role, t) IN
    [store |-> StoreSet(store, id, s, TTL, t),
     sess |-> IF setFails THEN NoSession ELSE s,
     err |-> IF setFails THEN "store error" ELSE ""]

\* Manager.Create with a configured store: the session is built, Store.Set is
\* called with m.TTL, and its error, if any, is returned instead of the session
ManagerCreate(store, id, userID, role, t, setFails) ==
    LET s == NewSession(id, userID, role, t) IN
    IF setFails
    THEN [store |-> store, sess |-> NoSession, err |-> "store error"]
    ELSE [store |-> StoreSet(store, id, s, TTL, t), sess |-> s, err |-> ""]

\* Manager.Create(userID, role); the store write fails when setFails
CreateCall(u, role, setFails) ==
    /\ nextID <= MaxSessions /\ ~rf.done
    /\ LET m == ManagerCreate(sessStore, nextID, u, role, now, setFails) IN
       /\ sessStore' = m.store
       /\ nextID' = IF m.err = "" THEN nextID + 1 ELSE nextID
       /\ rf' = [done |-> TRUE, at |-> now,
                 before |-> [NoSession EXCEPT !.ID = nextID, !.UserID = u, !.Role = role],
                 after |-> m.sess, refreshed |-> FALSE, err |-> m.err,
                 wrote |-> m.store # sessStore, deleted |-> FALSE, fault |-> setFails]
    /\ UNCHANGED <<now, backend, limiter, usr, mgr, loggedOut, keyVars, rlVars, lastLogin, req, last>>

\* the caller has taken the result
CreateReturn ==
    /\ rf.done
    /\ rf' = NoRefresh
    /\ UNCHANGED <<now, sessVars, keyVars, rlVars, lastLogin, req, last>>

CreateNext ==
    \/ \E u \in Users, role \in {"admin", "member"}, f \in BOOLEAN : CreateCall(u, role, f)
    \/ CreateReturn

CreateSpec ==
    InitAt(Backends, Managers \cup {LongTTLManager}, 1..MaxTime) /\ [][CreateNext]_vars

NoCookie == -1

LogoutCookies == {NoCookie} \cup CookieValues

LogoutOut(store, status, kind, msg, cleared) ==
    [store |-> store, status |-> status, errKind |-> kind, errMsg |-> msg,
     cleared |-> cleared]

\* variant: the error of Service.Logout is dropped
LogoutRun_IgnoresError(store, ck, deleteFails) ==
    IF ck # NoCookie /\ ck # 0 /\ ~deleteFails
    THEN LogoutOut(StoreDelete(store, ck), 204, "", "", TRUE)
    ELSE LogoutOut(store, 204, "", "", TRUE)

\* AuthHandler.Logout with Service.Logout and Manager.Delete: a cookie with a
\* value is deleted from the store, and a failed delete is answered through
\* writeAppError before the cookie is cleared
LogoutRun(store, ck, deleteFails) ==
    IF ck # NoCookie /\ ck # 0
    THEN IF deleteFails
         THEN LogoutOut(store, statusFromKind(KindInternal), KindInternal,
                        "failed to logout", FALSE)
         ELSE LogoutOut(StoreDelete(store, ck), 204, "", "", TRUE)
    ELSE LogoutOut(store, 204, "", "", TRUE)

\* POST /auth/logout, served with nothing running in between
LogoutCall(ck, deleteFails) ==
    /\ ~last.done
    /\ ck = NoCookie \/ Presentable(ck)
    /\ LET o == LogoutRun(sessStore, ck, deleteFails) IN
       /\ sessStore' = o.store
       /\ loggedOut' = IF o.store # sessStore THEN loggedOut \cup {ck} ELSE loggedOut
       /\ last' = [NoLast EXCEPT !.done = TRUE, !.method = "POST", !.cookie = ck,
                                 !.strategy = "logout", !.fault = deleteFails,
                                 !.status = o.status, !.errKind = o.errKind,
                                 !.errMsg = o.errMsg, !.cookieSet = o.cleared,
                                 !.valid0 = StoreHas(sessStore, ck, now),
                                 !.storeChanged = o.store # sessStore]
    /\ UNCHANGED <<now, backend, limiter, usr, mgr, nextID, keyVars, rlVars, obsVars, req>>

LogoutNext ==
    \/ Tick
    \/ \E u \in Users : Create(u)
    \/ \E ck \in LogoutCookies, f \in BOOLEAN : LogoutCall(ck, f)
    \/ Deliver

LogoutSpec == InitCommon /\ [][LogoutNext]_vars

\* the logout request reached Manager.Delete and the store refused it
DeleteFailed == last.fault /\ last.cookie # NoCookie /\ last.cookie # 0

\* C24 as stated: the logout endpoint clears the session cookie and answers 204
\* on every request, also when deleting from the store fails.
C24_LogoutAlways204 ==
    (last.done /\ last.strategy = "logout") => (last.status = 204 /\ last.cookieSet)

\* C24, amended: the logout endpoint clears the session cookie and answers 204
\* without a cookie, with an empty cookie, with an unknown session ID and when
\* the session was deleted, and the session is then not in the store; when
\* deleting from the store fails it answers 500 "failed to logout", clears no
\* cookie and leaves the store as it was.
C24_LogoutUnlessDeleteFails ==
    (last.done /\ last.strategy = "logout") =>
        IF DeleteFailed
        THEN /\ last.status = 500 /\ last.errMsg = "failed to logout"
             /\ ~last.cookieSet /\ ~last.storeChanged
        ELSE /\ last.status = 204 /\ last.cookieSet
             /\ ~StoreHas(sessStore, last.cookie, now)
             /\ last.storeChanged => last.valid0 \/ sessStore[last.cookie] = NoEntry

\* a logout with the cookie of a stored session removed it and answered 204
C24_Witness ==
    /\ last.done /\ last.strategy = "logout" /\ last.valid0 /\ ~last.fault
    /\ last.status = 204 /\ last.cookieSet /\ last.storeChanged
    /\ ~StoreHas(sessStore, last.cookie, now)

\* ------------------------------------------------------------ writeAppError
\* errorMessage: the message of the error, else the default of its kind
errorMessage(kind, msg) ==
    IF msg # "" THEN msg
    ELSE CASE kind = KindUnauthorized -> "unauthorized"
           [] kind = KindForbidden -> "forbidden"
           [] kind = KindNotFound -> "not found"
           [] kind = "conflict" -> "conflict"
           [] kind = KindRateLimited -> "too many requests"
           [] kind = KindInvalidInput -> "invalid request"
           [] OTHER -> "internal error"

\* the errors a handler passes on: an apperrors.Error of some kind, with or
\* without a message, and a retry duration in milliseconds; isApp is false for
\* an error that is not an apperrors.Error
ErrKinds ==
    {KindInvalidInput, KindUnauthorized, KindForbidden, KindNotFound, "conflict",
     KindRateLimited, KindInternal}
RetryDurations == {-1, 0, 1, 999, 1000, 1999, 2000, 60000}
AppErrors ==
    [isApp : {TRUE}, Kind : ErrKinds, Message : {"", "too many requests"},
     RetryAfter : RetryDurations]
        \cup [isApp : {FALSE}, Kind : {""}, Message : {"boom"}, RetryAfter : {0}]

\* variant: the whole seconds of the duration go into the header as they are
writeAppError_NoFloor(e) ==
    IF ~e.isApp
    THEN [status |-> 500, body |-> "internal error",
          retryAfter |-> [set |-> FALSE, seconds |-> 0]]
    ELSE [status |-> statusFromKind(e.Kind), body |-> errorMessage(e.Kind, e.Message),
          retryAfter |-> IF e.Kind = KindRateLimited /\ e.RetryAfter > 0
                         THEN [set |-> TRUE, seconds |-> e.RetryAfter \div 1000]
                         ELSE [set |-> FALSE, seconds |-> 0]]

\* writeAppError: Retry-After is set for a rate-limited error with a positive
\* duration, to int(RetryAfter.Seconds()) raised to 1; then http.Error
writeAppError(e) ==
    IF ~e.isApp
    THEN [status |-> 500, body |-> "internal error",
          retryAfter |-> [set |-> FALSE, seconds |-> 0]]
    ELSE [status |-> statusFromKind(e.Kind), body |-> errorMessage(e.Kind, e.Message),
          retryAfter |-> IF e.Kind = KindRateLimited /\ e.RetryAfter > 0
                         THEN LET seconds == e.RetryAfter \div 1000 IN
                              [set |-> TRUE,
                               seconds |-> IF seconds <= 0 THEN 1 ELSE seconds]
                         ELSE [set |-> FALSE, seconds |-> 0]]

\* a handler answers with writeAppError(e)
WriteAppErrorCall(e) ==
    /\ ~last.done
    /\ LET o == writeAppError(e) IN
       last' = [NoLast EXCEPT !.done = TRUE, !.strategy = "error",
                              !.errKind = e.Kind, !.errMsg = o.body,
                              !.status = o.status, !.retryIn = e.RetryAfter,
                              !.retryAfter = o.retryAfter]
    /\ UNCHANGED <<now, sessVars, keyVars, rlVars, obsVars, req>>

ErrNext ==
    \/ \E e \in AppErrors : WriteAppErrorCall(e)
    \/ Deliver

ErrSpec == InitCommon /\ [][ErrNext]_vars

\* a response was written for a rate-limited error
RateLimitedResponse ==
    last.done /\ last.strategy = "error" /\ last.errKind = KindRateLimited

\* C25 as stated: every 429 for a rate-limited error carries a Retry-After
\* header of whole seconds, at least 1.
C25_AlwaysRetryAfter ==
    RateLimitedResponse =>
        /\ last.status = 429
        /\ last.retryAfter.set /\ last.retryAfter.seconds >= 1

\* C25, amended: a 429 for a rate-limited error with a positive retry duration
\* carries a Retry-After header with the whole seconds of the duration, 1 for
\* a duration under a second; with a zero or negative duration the 429
\* carries no Retry-After header.
C25_RetryAfterWhenPositive ==
    RateLimitedResponse =>
        /\ last.status = 429
        /\ last.retryIn > 0 =>
              /\ last.retryAfter.set /\ last.retryAfter.seconds >= 1
              /\ last.retryIn < 1000 => last.retryAfter.seconds = 1
              /\ last.retryIn >= 1000 =>
                    /\ last.retryAfter.seconds * 1000 <= last.retryIn
                    /\ last.retryIn < (last.retryAfter.seconds + 1) * 1000
        /\ last.retryIn <= 0 => ~last.retryAfter.set

\* a rate-limited error with 999 ms to wait was answered with Retry-After: 1
C25_Witness ==
    /\ RateLimitedResponse /\ last.status = 429
    /\ last.retryIn = 999 /\ last.retryAfter = [set |-> TRUE, seconds |-> 1]

\* ------------------------------------------------- Login and the session store
\* the store entries a step has changed
ChangedSessions == {id \in SessionIDs : sessStore'[id] # sessStore[id]}

\* C26: Login creates a session exactly when it succeeds: a successful Login
\* stores one new session, with the ID and role of the user it looked up, and
\* returns that session's ID, CSRF token and ExpiresAt; a Login that returns
\* an error leaves the session store as it was.
C26_SessionIffSuccess ==
    [][(~lastLogin.done /\ lastLogin'.done) =>
          IF lastLogin'.errKind = ""
          THEN /\ Cardinality(ChangedSessions) = 1
               /\ \A id \in ChangedSessions :
                     /\ ~sessStore[id].present /\ sessStore'[id].present
                     /\ sessStore'[id].sess = lastLogin'.sess
                     /\ lastLogin'.sess.ID = id
                     /\ lastLogin'.sess.UserID
                           = UserByEmail(Normalize(lastLogin'.email)).ID
                     /\ lastLogin'.sess.Role
                           = UserByEmail(Normalize(lastLogin'.email)).Role
                     /\ lastLogin'.userID = lastLogin'.sess.UserID
                     /\ lastLogin'.sess.CSRFToken # 0
                     /\ lastLogin'.sess.ExpiresAt = now + TTL
          ELSE /\ ChangedSessions = {}
               /\ lastLogin'.sess = NoSession]_vars

\* a Login succeeded and the store holds the session it returned
C26_Witness ==
    /\ lastLogin.done /\ lastLogin.errKind = "" /\ lastLogin.created
    /\ lastLogin.sess.ID # 0
    /\ sessStore[lastLogin.sess.ID].present
    /\ sessStore[lastLogin.sess.ID].sess = lastLogin.sess

\* the input of the Login call fails validation: after trimming the email is
\* empty or has no "@", or the password is empty
Malformed(l) == Normalize(l.email) = "" \/ ~HasAt(Normalize(l.email)) \/ l.password = 0

\* C27: Login with an empty email, an email without "@" or an empty password
\* (after trimming) returns InvalidInput and neither increments a rate-limit
\* counter nor looks up the user nor creates a session.
C27_InvalidInputTouchesNothing ==
    [][(~lastLogin.done /\ lastLogin'.done /\ Malformed(lastLogin')) =>
          /\ lastLogin'.errKind = KindInvalidInput
          /\ rl' = rl
          /\ lastLogin'.ipCalls = 0 /\ lastLogin'.emailCalls = 0
          /\ ~lastLogin'.lookedUp /\ ~lastLogin'.verified
          /\ ~lastLogin'.created /\ lastLogin'.sess = NoSession
          /\ sessStore' = sessStore /\ nextID' = nextID]_vars

\* a Login with an empty password, from an IP whose counter is running, was
\* refused as invalid input and the counter stands where it stood
C27_Witness ==
    /\ lastLogin.done /\ lastLogin.password = 0 /\ lastLogin.ip = "1.1.1.1"
    /\ lastLogin.errKind = KindInvalidInput
    /\ lastLogin.ipCalls = 0
    /\ CounterLive(rl["login:ip:1.1.1.1"], now)
    /\ rl["login:ip:1.1.1.1"].count = 1

\* ------------------------------------------------ API keys and their tokens
\* the token GenerateToken made for the key with this id
TokenOf(id) == id

\* apikeys.Service.Create for user u: the key and the raw token are returned
KeyCreateCall(u, scopeIn) ==
    LET scope == IF scopeIn = "" THEN "read_write" ELSE scopeIn
        id == NextKeyID
        token == TokenOf(id)
    IN /\ id <= MaxKeys /\ ~lastList.done
       /\ Valid(scope)
       /\ keys' = [keys EXCEPT ![id] = NewKey(u, scope, token)]
       /\ lastList' = [NoList EXCEPT !.done = TRUE, !.user = u, !.ids = {id},
                                     !.token = token, !.created = NewKey(u, scope, token)]
       /\ lastRev' = NoLastRev
       /\ last' = NoLast
       /\ UNCHANGED <<now, sessVars, rlVars, obsVars, req, rev>>

\* the caller has taken the result of Create or List
KeyReturn ==
    /\ lastList.done
    /\ lastList' = NoList
    /\ UNCHANGED <<now, sessVars, rlVars, obsVars, req, rev, keys, lastRev, last>>

TokNext ==
    \/ Tick
    \/ \E u \in Users, sc \in {"", "read"} : KeyCreateCall(u, sc)
    \/ \E u \in Users : ~lastList.done /\ KeyList(u)
    \/ \E u \in Users, id \in KeyIDs : RevokeCall(u, id)
    \/ KeyReturn

TokSpec == InitWith({"redis"}) /\ [][TokNext]_vars

\* C28: the API-key store never holds a raw token: each row holds the hash of
\* its token and a short prefix of it; the raw token is in the return value
\* of the Create call that made the key and in nothing List returns.
C28_NoRawTokenStored ==
    /\ \A k \in KeyIDs : keys[k].present =>
           /\ keys[k].TokenHash = HashToken(TokenOf(k))
           /\ keys[k].TokenHash # TokenOf(k)
           /\ keys[k].TokenPrefix = TokenPrefix(TokenOf(k))
           /\ keys[k].TokenPrefix # TokenOf(k)
    /\ (lastList.done /\ lastList.token # 0) =>
           /\ lastList.ids = {NextKeyID - 1}
           /\ lastList.token = TokenOf(NextKeyID - 1)
           /\ lastList.created = keys[NextKeyID - 1]
           /\ lastList.created.TokenHash = HashToken(lastList.token)
    /\ (lastList.done /\ lastList.token = 0) =>
           \A r \in lastList.rows :
               /\ DOMAIN r = {"ID", "UserID", "Scope", "TokenPrefix", "RevokedAt"}
               /\ r.TokenPrefix # TokenOf(r.ID)

\* the second key was just created: its token came back and its row holds the
\* hash and the prefix, which is also the prefix of another token
C28_Witness ==
    /\ lastList.done /\ lastList.token = 2
    /\ keys[2].present /\ keys[2].TokenHash = HashToken(2)
    /\ keys[2].TokenPrefix = TokenPrefix(3)
    /\ keys[1].present

\* ------------------------------------------- Login without a rate limiter
\* a Login call that is also entered in the history of attempts
AttemptLogin(q) ==
    /\ Len(hist) < MaxCalls
    /\ LoginBody(q, "none")
    /\ hist' = Append(hist, [key |-> "login:email:" \o Normalize(q.email), at |-> 0,
                             allowed |-> lastLogin'.errKind # KindRateLimited,
                             retryAfter |-> lastLogin'.retryAfter,
                             count |-> Len(hist) + 1, overlap |-> FALSE])

AttemptInputs ==
    [email : {"a@b.com"}, password : {1, 2}, ip : {"1.1.1.1"}]
        \cup [email : {"x@y.com"}, password : {2}, ip : {""}]

NoLimNext ==
    \/ Tick
    \/ \E q \in AttemptInputs : AttemptLogin(q)
    \/ LoginReturn

NoLimSpec ==
    InitFull({"redis"}, {DefaultManager}, {1}, {"none", "no_client"}) /\ [][NoLimNext]_vars

\* C29: with no rate limiter configured Login never returns RateLimited: any
\* number of attempts go on to the lookup of the user, and nothing is counted.
C29_NoLimiterNoRateLimit ==
    limiter # "redis" =>
        /\ \A i \in 1..Len(hist) : hist[i].allowed /\ hist[i].retryAfter = 0
        /\ \A key \in RLKeys : rl[key] = NoCounter
        /\ lastLogin.done =>
              /\ lastLogin.errKind # KindRateLimited
              /\ lastLogin.lookedUp

\* without a limiter, more attempts than the limit were made with a wrong
\* password for one email from one IP, and the last one was still verified
C29_Witness ==
    /\ limiter = "none" /\ Len(hist) = MaxCalls /\ MaxCalls > EffLimit
    /\ \A i \in 1..Len(hist) : hist[i].key = "login:email:a@b.com"
    /\ lastLogin.done /\ lastLogin.password = 2 /\ lastLogin.verified
    /\ lastLogin.errKind = KindUnauthorized

\* --------------------------------------------- Revoke and the key's owner
\* the Revoke call that has just returned named an ID that no key has, or the
\* key of another user
NotTheCallersKey(l) ==
    l.done /\ l.id # 0 /\ (~l.before.present \/ l.before.UserID # l.user)

\* C30: Revoke(id) returns NotFound and changes no key when no key has that
\* ID or the key belongs to another user, and whatever the calls and their
\* interleaving, a key's RevokedAt is only ever set by a call of its owner.
C30_OnlyOwnerRevokes ==
    [][/\ NotTheCallersKey(lastRev') =>
             (lastRev'.errKind = KindNotFound /\ keys' = keys)
       /\ \A k \in KeyIDs : (keys[k].present /\ keys'[k] # keys[k]) =>
             /\ keys'[k] = [keys[k] EXCEPT !.RevokedAt = now]
             /\ \E p \in Procs : /\ rev[p].pc = "exec" /\ rev[p].id = k
                                  /\ rev[p].user = keys[k].UserID]_vars

\* a user asked to revoke the key of another user: NotFound, and the key is
\* not revoked
C30_Witness ==
    /\ lastRev.done /\ lastRev.before.present
    /\ lastRev.before.UserID # lastRev.user
    /\ lastRev.errKind = KindNotFound
    /\ keys[lastRev.id].present /\ keys[lastRev.id].RevokedAt = 0

\* ---------------------------------------------- users.Service, one call
UserCall(op, requesterID, ctxRole, targetID, in) ==
    /\ ~usr.res.done
    /\ op \in {"UpdateSelf", "DeleteSelf"} => targetID = requesterID
    /\ op \in {"DeleteSelf", "DeleteByID"} => in = NoInput
    /\ LET o == UserRun(usr.tbl, op, requesterID, ctxRole, targetID, in) IN
       usr' = [tbl |-> o.tbl,
               res |-> [done |-> TRUE, op |-> op, requester |-> requesterID,
                        ctxRole |-> ctxRole, target |-> targetID,
                        hasRole |-> in.hasRole, errKind |-> o.errKind, call |-> o.call]]
    /\ UNCHANGED <<now, backend, limiter, mgr, sessStore, nextID, loggedOut, keyVars,
                   rlVars, obsVars, req, last>>

\* the caller has taken the result
UserReturn ==
    /\ usr.res.done
    /\ usr' = [usr EXCEPT !.res = NoUserRes]
    /\ UNCHANGED <<now, backend, limiter, mgr, sessStore, nextID, loggedOut, keyVars,
                   rlVars, obsVars, req, last>>

UsrNext ==
    \/ \E op \in UserOps, r \in Users, role \in {"admin", "user"},
          t \in Users \cup {"", "usr_9"}, in \in UserInputs : UserCall(op, r, role, t, in)
    \/ UserReturn

UsrSpec == InitWith({"redis"}) /\ [][UsrNext]_vars

\* C31: a requester whose role is not admin causes no store Update or Delete
\* on the record of another user and no role change: UpdateByID and
\* DeleteByID on a target other than the requester, and every update that
\* carries a role, return Forbidden without a call to the store.
C31_NonAdminKeptOut ==
    [][(~usr.res.done /\ usr'.res.done /\ usr'.res.ctxRole # "admin") =>
          /\ (usr'.res.target # ""
                 /\ (usr'.res.target # usr'.res.requester \/ usr'.res.hasRole)) =>
                (/\ usr'.res.errKind = KindForbidden
                 /\ usr'.res.call = "none"
                 /\ usr'.tbl = usr.tbl)
          /\ \A u \in Users :
                /\ u # usr'.res.requester => usr'.tbl[u] = usr.tbl[u]
                /\ usr'.tbl[u].present => usr'.tbl[u].Role = usr.tbl[u].Role]_vars

\* a user who is not an admin asked for the admin role on their own record and
\* was refused, and their role is still what it was
C31_Witness ==
    /\ usr.res.done /\ usr.res.op = "UpdateSelf" /\ usr.res.ctxRole = "user"
    /\ usr.res.requester = "usr_2" /\ usr.res.hasRole
    /\ usr.res.errKind = KindForbidden /\ usr.res.call = "none"
    /\ usr.tbl["usr_2"].present /\ usr.tbl["usr_2"].Role = "user"

\* ------------------------------------ two refreshes of one session at once
\* A GET with the cookie of an issued session enters the middleware and notes
\* when it started.  The race is between two refreshes: no further request on
\* the session starts while one in flight has already seen a refresh written.
RaceBegin(p, id) ==
    /\ req[p].pc = "idle"
    /\ id < nextID
    /\ \A o \in Procs : (req[o].pc # "idle" /\ req[o].cookie = id) => req[o].peerStart = 0
    /\ LET q == [method |-> "GET", xApiKey |-> 0, bearer |-> 0, cookie |-> id, csrf |-> 0]
           c == StepBegin(sessStore, q, FALSE, TRUE)
       IN Apply(p, [c EXCEPT !.r.start = now])

\* the store write of request p's Refresh.  The requests in flight on the
\* same session note the start of the call that has just refreshed it.
RaceStoreSet(p) ==
    /\ req[p].pc = "store_set"
    /\ LET c == StepStoreSet(Mine(p), now) IN
       /\ sessStore' = c.store
       /\ last' = c.out
       /\ req' = [o \in Procs |->
                    IF o = p THEN c.r
                    ELSE IF req[o].pc # "idle" /\ req[o].cookie = req[p].cookie
                    THEN [req[o] EXCEPT !.peerStart = req[p].start]
                    ELSE req[o]]
    /\ UNCHANGED <<now, backend, limiter, usr, mgr, nextID, loggedOut, keyVars, rlVars, obsVars>>

RaceNext ==
    \/ Tick
    \/ Create("usr_1")
    \/ \E p \in Procs :
          \/ \E id \in SessionIDs : RaceBegin(p, id)
          \/ AS_StoreGet(p)
          \/ AS_StoreDel(p)
          \/ AS_MgrGet(p)
          \/ AS_Refresh(p)
          \/ RaceStoreSet(p)

RaceSpec == InitCommon /\ [][RaceNext]_vars

\* request r holds a copy of the session it read
HoldsCopy(r) == r.pc \in {"mgr_get", "refresh", "store_set"}

\* two copies of one session agree in what Refresh must not touch
SameIdentity(a, b) ==
    /\ a.UserID = b.UserID
    /\ a.Role = b.Role
    /\ a.CreatedAt = b.CreatedAt
    /\ a.CSRFToken = b.CSRFToken

\* C32: when two requests refresh the same session concurrently, in every
\* interleaving the ExpiresAt left in the store is the now + TTL computed by
\* one of the two calls, a time later than the start of both calls, and the
\* stored user, role, CreatedAt and CSRF token are unchanged.  Stated for
\* every store write of a Refresh: the entry written is the writer's own
\* now + TTL, a time later than the writer's start and than the start of the
\* call whose refresh it overwrites, and it agrees in user, role, CreatedAt
\* and CSRF token with the entry it replaces and with the copy every other
\* request in flight holds.
C32_ConcurrentRefresh ==
    [][\A p \in Procs :
          (req[p].pc = "store_set" /\ req'[p].pc = "idle") =>
             LET id == req[p].cookie
                 e == sessStore'[id].sess
             IN /\ sessStore'[id].present
                /\ e.ExpiresAt = e.LastRefreshedAt + TTL
                /\ e.LastRefreshedAt >= req[p].start
                /\ e.LastRefreshedAt <= now
                /\ e.ExpiresAt > req[p].start
                /\ e.ExpiresAt > req[p].peerStart
                /\ sessStore[id].present => SameIdentity(e, sessStore[id].sess)
                /\ e.UserID = "usr_1" /\ e.CSRFToken = NewCSRFToken(id)
                /\ \A o \in Procs \ {p} :
                      (HoldsCopy(req[o]) /\ req[o].cookie = id) =>
                          SameIdentity(e, req[o].sess)]_vars

\* the other call has refreshed the session and returned; this one computed
\* its expiry earlier and is about to overwrite the later one
C32_Witness ==
    /\ req["p1"].pc = "store_set" /\ req["p2"].pc = "idle"
    /\ req["p1"].peerStart # 0
    /\ sessStore[req["p1"].cookie].present
    /\ sessStore[req["p1"].cookie].sess.ExpiresAt > req["p1"].sess.ExpiresAt
    /\ sessStore[req["p1"].cookie].sess.LastRefreshedAt
          > sessStore[req["p1"].cookie].sess.CreatedAt

\* ------------------------------ the middleware with both strategies at once
\* requests as clients send them: with or without a key, with or without the
\* cookie of a session
MwRequests ==
    [method : {"GET", "POST"}, xApiKey : {0, 1, MaxKeys + 1}, bearer : {0},
     cookie : {0, 1}, csrf : {0}]

MwBegin(p) ==
    \E q \in MwRequests, allowAPIKey \in BOOLEAN, allowSession \in BOOLEAN :
        /\ KeyPresentable(q.xApiKey)
        /\ MW_Begin(p, q, allowAPIKey, allowSession)

\* the next step of request p, whichever it is
MwStep(p) ==
    \/ MW_APIKey(p)
    \/ AS_StoreGet(p)
    \/ AS_StoreDel(p)
    \/ AS_MgrGet(p)
    \/ AS_Refresh(p)
    \/ AS_StoreSet(p)

\* one request is followed through the middleware while sessions and keys
\* are created and the clock advances
MwProcs == {"p1"}

MwNext ==
    \/ Tick
    \/ Create("usr_2")
    \/ KeyCreate("usr_1", "read")
    \/ \E p \in MwProcs : MwBegin(p) \/ MwStep(p)

\* a request that has a step to take takes it: the server serves every
\* request it has accepted
MwSpec ==
    /\ InitWith({"redis"})
    /\ [][MwNext]_vars
    /\ \A p \in MwProcs : WF_vars(MwStep(p))

\* the response of a request: the handler ran, or an error status was written
Authenticated(l) == l.done /\ l.handler /\ l.errKind = "" /\ l.status = 0
Rejected(l) == l.done /\ ~l.handler /\ l.status \in {401, 403, 500}

\* the requests of process p that came to their end in this step
Ends(p) == req[p].pc # "idle" /\ req'[p].pc = "idle"

\* C33: each request makes at most one authentication attempt with exactly
\* one strategy: with an API-key credential present and API-key auth enabled,
\* a failure of the API-key path rejects the request without trying the
\* session cookie; and the middleware reaches Authenticated or Rejected after
\* that single attempt.
C33_OneAttempt ==
    /\ [][\A p \in Procs :
            /\ req'[p].pc # "idle" =>
                  /\ Cardinality(req'[p].tried) = 1
                  /\ (req'[p].allowAPIKey /\ req'[p].apiKey # 0) => req'[p].tried = {"apikey"}
            /\ Ends(p) =>
                  /\ Authenticated(last') # Rejected(last')
                  /\ last'.attempts = 1
                  /\ last'.strategy \in req[p].tried
                  /\ (req[p].allowAPIKey /\ req[p].apiKey # 0) =>
                        /\ last'.strategy = "apikey"
                        /\ sessStore' = sessStore
                        /\ last'.errKind # "" => Rejected(last')]_vars
    /\ \A p \in MwProcs : (req[p].pc # "idle") ~> (req[p].pc = "idle")

\* a POST with a read-only key and the cookie of a live session, on a route
\* that allows both strategies, was refused on the API-key path
C33_Witness ==
    /\ last.done /\ last.strategy = "apikey" /\ last.attempts = 1
    /\ last.allowAPIKey /\ last.allowSession
    /\ last.errKind = KindForbidden /\ ~last.handler
    /\ last.cookie # 0 /\ SessionValid(sessStore, last.cookie, now)

\* C34: on the session path the middleware rewrites the session cookie, with
\* the session's ID and its new ExpiresAt, if and only if AuthenticateSession
\* reported refreshed=true; on the API-key path and on every rejected request
\* no session cookie is written.
C34_CookieIffRefreshed ==
    last.done =>
        /\ (last.strategy = "session" /\ last.errKind = "") =>
              /\ last.cookieSet <=> last.refreshed
              /\ last.cookieSet =>
                    /\ last.cookieID = last.cookie
                    /\ last.cookieID = last.sess.ID
                    /\ last.cookieExp = last.sess.ExpiresAt
                    /\ last.cookieExp = last.sess.LastRefreshedAt + TTL
                    /\ last.sess.LastRefreshedAt <= now
                    /\ sessStore[last.cookie].present
                    /\ sessStore[last.cookie].sess.ExpiresAt = last.cookieExp
              /\ ~last.cookieSet => (last.cookieID = 0 /\ last.cookieExp = 0)
        /\ (last.strategy # "session" \/ last.errKind # "") =>
              (~last.cookieSet /\ last.cookieID = 0 /\ last.cookieExp = 0)

\* a GET with the cookie of a session close to its expiry was let through and
\* the cookie was written again with the later expiry
C34_Witness ==
    /\ last.done /\ last.strategy = "session" /\ last.handler
    /\ last.refreshed /\ last.cookieSet
    /\ last.cookieID = last.cookie
    /\ last.cookieExp > sessStore[last.cookie].sess.CreatedAt + TTL

\* the entry under id was written by a Refresh that returned refreshed=true
WrittenByRefresh(id) ==
    sessStore[id].present /\ sessStore[id].sess.LastRefreshedAt > sessStore[id].sess.CreatedAt

\* Manager.Get at time t would return the entry that store holds under id
Retrievable(store, id, t) == SessionValid(store, id, t)

\* C35: a session for which Refresh has returned refreshed=true stays
\* retrievable by Get until its new ExpiresAt, unless a logout or the MaxAge
\* cutoff removes it, even when another request's Get on the same ID, which
\* deletes an entry it finds expired, runs concurrently with that Refresh.
\* Stated for every step of a request: a refreshed session that Get would
\* return before the step is one that Get would return after it.
C35_RefreshedStaysRetrievable ==
    [][\A id \in SessionIDs :
          (WrittenByRefresh(id) /\ Retrievable(sessStore, id, now) /\ req' # req)
              => Retrievable(sessStore', id, now)]_vars

\* the positions of AuthenticateSession after Store.Get has returned a session
PastTheRead == {"mgr_get", "refresh", "store_set"}

\* C36: AuthenticateSession never succeeds for a session whose ExpiresAt is
\* earlier than the time at which the store is read, with the in-memory store
\* (which ignores the TTL passed to Set) as well as with the shared store.
\* Stated for every step: a call gets past its store read only with the entry
\* the store holds at that time, whose ExpiresAt is not earlier than that
\* time, and only a call that got past its read returns without error.
C36_NoSuccessOnExpired ==
    [][\A p \in Procs :
          /\ (req'[p].pc \in PastTheRead /\ req[p].pc \notin PastTheRead) =>
                /\ req[p].pc = "store_get"
                /\ StoreHas(sessStore, req[p].cookie, now)
                /\ sessStore[req[p].cookie].sess.ExpiresAt >= now
                /\ req'[p].sess = sessStore[req[p].cookie].sess
          /\ (Ends(p) /\ last'.strategy = "session" /\ last'.errKind = "") =>
                req[p].pc \in PastTheRead
          /\ (req[p].pc = "store_del" /\ req'[p] # req[p]) =>
                (req'[p].pc = "idle" /\ last'.errKind = KindUnauthorized)]_vars

\* the in-memory store still holds a session past its ExpiresAt, and the
\* request that read it is about to delete it and be refused
C36_Witness ==
    \E p \in Procs :
        /\ backend = "memory"
        /\ req[p].pc = "store_del"
        /\ sessStore[req[p].cookie].present
        /\ now > sessStore[req[p].cookie].sess.ExpiresAt

\* C37: an AuthenticateSession call that fails the CSRF check (Forbidden)
\* performs no Refresh: the stored session's ExpiresAt and LastRefreshedAt are
\* unchanged, so requests without the valid CSRF token cannot extend a
\* session's lifetime.
C37_ForbiddenLeavesSession ==
    [][(~last.done /\ last'.done /\ last'.strategy = "session") =>
          /\ last'.errKind = KindForbidden =>
                (sessStore' = sessStore /\ ~last'.refreshed /\ ~last'.cookieSet)
          /\ \A id \in SessionIDs :
                (/\ last'.cookie = id
                 /\ requiresCSRFToken(last'.method)
                 /\ sessStore[id].present
                 /\ last'.csrf # sessStore[id].sess.CSRFToken
                 /\ sessStore'[id].present) =>
                    /\ sessStore'[id].sess.ExpiresAt = sessStore[id].sess.ExpiresAt
                    /\ sessStore'[id].sess.LastRefreshedAt = sessStore[id].sess.LastRefreshedAt]_vars

\* a POST with a wrong CSRF token on a session one tick from its expiry, which
\* a GET would have refreshed, was refused as Forbidden
C37_Witness ==
    /\ last.done /\ last.strategy = "session" /\ last.method = "POST"
    /\ last.errKind = KindForbidden
    /\ last.csrf # 0
    /\ sessStore[last.cookie].present
    /\ last.csrf # sessStore[last.cookie].sess.CSRFToken
    /\ TTL > 0
    /\ ~FarFromExpiry(sessStore[last.cookie].sess, now)
    /\ sessStore[last.cookie].sess.LastRefreshedAt = sessStore[last.cookie].sess.CreatedAt

\* C38: the identity the downstream handler sees is exactly the user ID and
\* role returned by the one authentication call made for the request: the key
\* owner's on the API-key path, even when a valid session cookie of a
\* different user is also present, and the session owner's on the session
\* path.
C38_IdentityOfTheCall ==
    last.done =>
        /\ ~last.handler => (last.ctxUser = "" /\ last.ctxRole = "")
        /\ last.handler =>
              /\ last.attempts = 1
              /\ last.ctxUser = last.user /\ last.ctxRole = last.role
              /\ last.ctxUser # ""
              /\ last.strategy = "apikey" =>
                    /\ KeysOfToken(last.apiKey) # {}
                    /\ \A k \in KeysOfToken(last.apiKey) :
                          /\ last.ctxUser = keys[k].UserID
                          /\ last.ctxRole = UserRole(keys[k].UserID)
              /\ last.strategy = "session" =>
                    /\ sessStore[last.cookie].present
                    /\ last.ctxUser = sessStore[last.cookie].sess.UserID
                    /\ last.ctxRole = sessStore[last.cookie].sess.Role

\* a GET with a key of the admin usr_1 and the cookie of a live session of
\* usr_2, on a route that allows both strategies, ran as usr_1 with role admin
C38_Witness ==
    /\ last.done /\ last.handler /\ last.strategy = "apikey"
    /\ last.allowAPIKey /\ last.allowSession
    /\ last.ctxUser = "usr_1" /\ last.ctxRole = "admin"
    /\ last.cookie \in SessionIDs /\ last.valid0
    /\ sessStore[last.cookie].sess.UserID = "usr_2"
    /\ sessStore[last.cookie].sess.Role = "member"

\* the counters of the Login call whose result is l
IPKey(l) == "login:ip:" \o l.ip
EmailKey(l) == "login:email:" \o Normalize(l.email)

\* C39: Login checks and increments the IP counter before the email counter:
\* an attempt blocked by the IP counter leaves the email counter unchanged,
\* and the email counter is incremented only when the IP check passed or the
\* client IP is empty.
C39_IPBeforeEmail ==
    [][(~lastLogin.done /\ lastLogin'.done) =>
          LET l == lastLogin' IN
          /\ \A key \in RLKeys :
                rl'[key] # rl[key] =>
                   \/ (l.ip # "" /\ key = IPKey(l) /\ l.ipCalls = 1)
                   \/ (HasAt(Normalize(l.email)) /\ key = EmailKey(l) /\ l.emailCalls = 1)
          /\ (l.ip # "" /\ l.ipOver /\ l.password # 0 /\ HasAt(Normalize(l.email))
                 /\ l.fail # "limiter") =>
                /\ l.errKind = KindRateLimited
                /\ l.ipCalls = 1 /\ l.emailCalls = 0
                /\ rl'[IPKey(l)].count = rl[IPKey(l)].count + 1
                /\ rl'[EmailKey(l)] = rl[EmailKey(l)]
          /\ l.emailCalls = 1 =>
                /\ rl'[EmailKey(l)].count =
                      (IF CounterLive(rl[EmailKey(l)], now) THEN rl[EmailKey(l)].count ELSE 0) + 1
                /\ l.ip = "" \/ (l.ipCalls = 1 /\ ~l.ipOver
                                   /\ rl'[IPKey(l)] # rl[IPKey(l)])
          /\ l.emailCalls = 0 =>
                (HasAt(Normalize(l.email)) => rl'[EmailKey(l)] = rl[EmailKey(l)])]_vars

\* an attempt from an IP over its limit was refused, for an email whose own
\* counter is running and under its limit
C39_Witness ==
    /\ lastLogin.done /\ lastLogin.fail = "none"
    /\ lastLogin.ip # "" /\ lastLogin.ipOver /\ ~lastLogin.emailOver
    /\ lastLogin.errKind = KindRateLimited
    /\ lastLogin.ipCalls = 1 /\ lastLogin.emailCalls = 0
    /\ rl[EmailKey(lastLogin)].present /\ rl[EmailKey(lastLogin)].count = 1

\* ------------------------------------------ spellings of one email address
\* one address written four ways: as stored, in capitals, padded with spaces,
\* and both
Spellings == {"a@b.com", "A@B.com", " a@b.com ", " A@B.com "}

SpelledInputs ==
    [email : Spellings, password : {2}, ip : {""}]
        \cup [email : {" A@B.com "}, password : {1}, ip : {""}]
        \cup [email : {"x@y.com"}, password : {2}, ip : {""}]

\* a Login call whose email, as the caller wrote it, is entered in the history
SpelledLogin(q) ==
    /\ Len(hist) < MaxCalls
    /\ LoginBody(q, "none")
    /\ hist' = Append(hist, [email |-> q.email, at |-> now,
                             allowed |-> lastLogin'.errKind # KindRateLimited])

NormNext ==
    \/ Tick
    \/ \E q \in SpelledInputs : SpelledLogin(q)
    \/ LoginReturn

NormSpec == InitWith({"redis"}) /\ [][NormNext]_vars

\* the attempts of the history, in any spelling of the address, that fall in
\* the window the counter c is counting
SpelledInWindow(c, t) ==
    {j \in 1..Len(hist) :
        /\ hist[j].email \in Spellings
        /\ CounterLive(c, t)
        /\ hist[j].at >= c.expireAt - EffWindow}

\* C40: the email counter is keyed by the trimmed, lower-cased email: a Login
\* attempt in any spelling of one address increments the one counter of that
\* address and no other, that counter holds the attempts of the window in all
\* spellings together, and the attempt is refused as rate limited exactly when
\* those attempts have already reached the limit.
C40_OneCounterForAllSpellings ==
    [][(~lastLogin.done /\ lastLogin'.done /\ lastLogin'.email \in Spellings) =>
          LET key == "login:email:a@b.com"
              before == IF CounterLive(rl[key], now) THEN rl[key].count ELSE 0
          IN /\ rl'[key].count = before + 1
             /\ \A k \in RLKeys \ {key} : rl'[k] = rl[k]
             /\ before = Cardinality(SpelledInWindow(rl[key], now))
             /\ (lastLogin'.errKind = KindRateLimited) <=> (before >= EffLimit)
             /\ lastLogin'.errKind # KindRateLimited => lastLogin'.known]_vars

\* the address was tried as stored and then in capitals, both with a wrong
\* password, and the third attempt, padded and in capitals, was refused
C40_Witness ==
    /\ Len(hist) = 3
    /\ hist[1].email = "a@b.com" /\ hist[1].allowed
    /\ hist[2].email = "A@B.com" /\ hist[2].allowed
    /\ hist[3].email = " A@B.com " /\ ~hist[3].allowed
    /\ lastLogin.done /\ lastLogin.email = " A@B.com "
    /\ lastLogin.errKind = KindRateLimited
    /\ rl["login:email:a@b.com"].count = 3

====
